---- MODULE Spec2Model ----
(***************************************************************************)
(* Transport layer of mcp-anywhere: the four transports                    *)
(*   SSEClientTransport   (push client,   src/unnamed/part_000 383-717)    *)
(*   StdioClientTransport (duplex client, src/unnamed/part_000 142-311)    *)
(*   SSEServerTransport   (push server,   src/src/server/sse.ts 65-293)    *)
(*   StdioServerTransport (duplex server, src/src/server/sse.ts 323-412)   *)
(* Each transport is one state machine over its own variables (prefix sc_, *)
(* dc_, ss_, ds_); each has its own specification, in which the variables  *)
(* of the other three stay at their constructed values.                    *)
(*                                                                         *)
(* An async method is a sequence of atomic steps cut at its awaits: the    *)
(* position of every call in flight is part of the state, and the answers  *)
(* of the collaborators (fetch, auth, the stream reader, the child         *)
(* process, the response object) are chosen by the environment.            *)
(***************************************************************************)
EXTENDS Integers, Sequences, FiniteSets, TLC

(***************************************************************************)
(* Bounds of the model.                                                    *)
(***************************************************************************)
MaxStartCalls == 2   \* start() calls on one SSEClientTransport
MaxGets       == 3   \* GET requests (_startStream invocations) in total
MaxSendCalls  == 1   \* send() calls on one SSEClientTransport
MaxPosts      == 3   \* POST requests in total
MaxCloseCalls == 2   \* close() calls on one SSEClientTransport
MaxEvents     == 2   \* server-sent events read in total
MaxSsStarts   == 2   \* start() calls on one SSEServerTransport
MaxSsCloses   == 2   \* close() calls on one SSEServerTransport
MaxSsSends    == 2   \* send() calls on one SSEServerTransport
MaxSsPosts    == 1   \* handlePostMessage calls on one SSEServerTransport
MaxLines      == 2   \* lines the peer of a stdio transport writes
MaxDsStarts   == 2   \* start() calls on one StdioServerTransport
MaxDsCloses   == 2   \* close() calls on one StdioServerTransport
MaxDsSends    == 2   \* send() calls on one StdioServerTransport
MaxPipeErrors == 1   \* error events of a stdio stream
MaxDcStarts   == 2   \* start() calls on one StdioClientTransport
MaxDcCloses   == 2   \* close() calls on one StdioClientTransport
MaxDcSends    == 2   \* send() calls on one StdioClientTransport

\* An absent URL (undefined in the source; new URL() having thrown).
Undefined == [origin |-> "", path |-> ""]

(***************************************************************************)
(* ---------------------- SSEClientTransport ----------------------------- *)
(***************************************************************************)
VARIABLES
    sc_authProvider,     \* _authProvider is configured (constructor option)
    sc_endpoint,         \* _endpoint: a URL or Undefined
    sc_abortController,  \* _abortController: 0 (undefined) or a controller id
    sc_reader,           \* _reader: 0 (undefined) or a reader id
    sc_didEmitClose,     \* _didEmitClose
    sc_aborted,          \* the controllers whose signal is aborted
    sc_cancelled,        \* the readers that were cancelled
    sc_gets,             \* GETs issued so far; the id of the latest attempt
    sc_posts,            \* POSTs issued so far
    sc_events,           \* events read so far
    sc_endpointSeen,     \* an endpoint event was read since _startStream was last entered
    sc_start,            \* the start() calls: position and outcome of each
    sc_nStart,           \* number of start() calls made
    sc_send,             \* the send() calls: position and outcome of each
    sc_nSend,            \* number of send() calls made
    sc_closing,          \* close() calls suspended in `await _reader.cancel()`
    sc_nClose,           \* number of close() calls made
    sc_onclose,          \* times onclose was invoked
    sc_onerror,          \* times onerror was invoked
    sc_onmessage         \* times onmessage was invoked

scVars == <<sc_authProvider, sc_endpoint, sc_abortController, sc_reader,
            sc_didEmitClose, sc_aborted, sc_cancelled, sc_gets, sc_posts,
            sc_events, sc_endpointSeen, sc_start, sc_nStart, sc_send, sc_nSend, sc_closing,
            sc_nClose, sc_onclose, sc_onerror, sc_onmessage>>

(***************************************************************************)
(* ---------------------- SSEServerTransport ----------------------------- *)
(***************************************************************************)
VARIABLES
    ss_resHasOn,         \* the response object offers on() (ResponseLike.on is optional)
    ss_sseResponse,      \* _sseResponse is set
    ss_written,          \* what was written to the response, in order
    ss_resEnded,         \* end() was called on the response
    ss_resClosed,        \* the response emitted its close event
    ss_closeListeners,   \* close listeners start() registered on the response
    ss_nStart,           \* start() calls made
    ss_nClose,           \* close() calls made
    ss_nSend,            \* send() calls made
    ss_lastCall,         \* outcome of the latest call
    ss_onclose,          \* times onclose was invoked
    ss_resStrict,        \* writeHead of the response throws once the head was sent
    ss_options,          \* _options
    ss_post,             \* the latest handlePostMessage call: request, position, outcome
    ss_nPost,            \* handlePostMessage calls made
    ss_onerror,          \* times onerror was invoked
    ss_onmessage         \* times onmessage was invoked

ssVars == <<ss_resHasOn, ss_sseResponse, ss_written, ss_resEnded, ss_resClosed,
            ss_closeListeners, ss_nStart, ss_nClose, ss_nSend, ss_lastCall,
            ss_onclose, ss_resStrict, ss_options, ss_post, ss_nPost, ss_onerror,
            ss_onmessage>>

(***************************************************************************)
(* ---------------------- StdioServerTransport --------------------------- *)
(***************************************************************************)
VARIABLES
    ds_input,            \* the bytes the peer writes to stdin over the whole run
    ds_fed,              \* how many of them the data listener has been given
    ds_others,           \* data listeners of other consumers on the same stdin
    ds_started,          \* _started
    ds_listening,        \* _ondata and _onerror are attached to stdin
    ds_paused,           \* stdin was paused by close()
    ds_readBuffer,       \* _readBuffer
    ds_delivered,        \* the messages given to onmessage, in order
    ds_onerror,          \* times onerror was invoked
    ds_onclose,          \* times onclose was invoked
    ds_out,              \* the calls of stdout.write in order: the text, and what write returned
    ds_awaitDrain,       \* send() promises waiting for the drain event
    ds_sent,             \* send() promises resolved
    ds_calls             \* start(), close(), send() calls, stream errors and data events so far

dsVars == <<ds_input, ds_fed, ds_others, ds_started, ds_listening, ds_paused,
            ds_readBuffer, ds_delivered, ds_onerror, ds_onclose, ds_out,
            ds_awaitDrain, ds_sent, ds_calls>>

(***************************************************************************)
(* ---------------------- StdioClientTransport --------------------------- *)
(***************************************************************************)
VARIABLES
    dc_processEnv,       \* process.env of the parent
    dc_serverEnv,        \* _serverParams.env, the caller's overrides
    dc_stderr,           \* _serverParams.stderr
    dc_PassThrough,      \* _PassThrough is loaded
    dc_stderrStream,     \* _stderrStream: 0 (null) or the id of a PassThrough
    dc_input,            \* the bytes the child writes to stdout over the whole run
    dc_fed,              \* how many of them the data listener has been given
    dc_process,          \* _process: 0 (undefined) or the id of a child
    dc_aborted,          \* _abortController.signal.aborted
    dc_readBuffer,       \* _readBuffer
    dc_start,            \* the start() calls: position and outcome of each
    dc_proc,             \* the children spawned: state and environment of each
    dc_delivered,        \* the messages given to onmessage, in order
    dc_onerror,          \* times onerror was invoked
    dc_onclose,          \* times onclose was invoked
    dc_calls,            \* start(), close() and send() calls, pipe errors, data events
                         \* and failed spawns so far
    dc_send              \* the send() calls: the calls of stdin.write in order, the
                         \* promises waiting for a drain event per child, those
                         \* resolved and those rejected

dcVars == <<dc_processEnv, dc_serverEnv, dc_stderr, dc_PassThrough, dc_stderrStream,
            dc_input, dc_fed, dc_process, dc_aborted,
            dc_readBuffer, dc_start, dc_proc, dc_delivered, dc_onerror, dc_onclose,
            dc_calls, dc_send>>

vars == <<scVars, ssVars, dsVars, dcVars>>

\* What an action of one transport leaves alone: the other transports.
ScFrame == UNCHANGED <<ssVars, dsVars, dcVars>>
SsFrame == UNCHANGED <<scVars, dsVars, dcVars>>
DsFrame == UNCHANGED <<scVars, ssVars, dcVars>>
DcFrame == UNCHANGED <<scVars, ssVars, dsVars>>

\* The connection URL (_url) and the URLs an endpoint event can name.
ConnOrigin  == "https://server"
OtherOrigin == "https://evil"
sc_url == [origin |-> ConnOrigin, path |-> "/sse"]

\* The data of an endpoint event: two relative URLs, an absolute URL on a
\* foreign origin, an absolute URL on the connection's origin, and a string
\* that is no URL.
EndpointData == {"/messages?a", "/messages?b", "https://evil/messages",
                 "https://server/messages?a", "http://["}

\* new URL(data, base): a relative reference takes the base's origin, an
\* absolute one keeps its own, and a malformed one throws (Undefined here).
NewURL(data, base) ==
    CASE data = "/messages?a"               -> [origin |-> base.origin, path |-> "/messages?a"]
      [] data = "/messages?b"               -> [origin |-> base.origin, path |-> "/messages?b"]
      [] data = "https://evil/messages"     -> [origin |-> OtherOrigin, path |-> "/messages"]
      [] data = "https://server/messages?a" -> [origin |-> ConnOrigin, path |-> "/messages?a"]
      [] OTHER                              -> Undefined

\* The data of a message event: a valid message, text that is no JSON, JSON
\* that is no message.
MessageData == {"valid", "badjson", "badschema"}

\* JSONRPCMessageSchema.parse(JSON.parse(data)) succeeds.
ParsesAsMessage(data) == data = "valid"

StartIdle == [pc |-> "idle", ctl |-> 0, resolved |-> FALSE, result |-> "none",
              gets |-> 0, auths |-> 0, delivered |-> 0, foreignSeen |-> FALSE,
              failure |-> "none", erred |-> FALSE]
SendIdle  == [pc |-> "idle", posts |-> 0, auths |-> 0, result |-> "none",
              target |-> Undefined, failure |-> "none", erred |-> FALSE]

SseClientConstructed(auth) ==
    /\ sc_authProvider = auth
    /\ sc_endpoint = Undefined
    /\ sc_abortController = 0
    /\ sc_reader = 0
    /\ sc_didEmitClose = FALSE
    /\ sc_aborted = {}
    /\ sc_cancelled = {}
    /\ sc_gets = 0
    /\ sc_posts = 0
    /\ sc_events = 0
    /\ sc_endpointSeen = FALSE
    /\ sc_start = [i \in 1..MaxStartCalls |-> StartIdle]
    /\ sc_nStart = 0
    /\ sc_send = [j \in 1..MaxSendCalls |-> SendIdle]
    /\ sc_nSend = 0
    /\ sc_closing = 0
    /\ sc_nClose = 0
    /\ sc_onclose = 0
    /\ sc_onerror = 0
    /\ sc_onmessage = 0

SseClientInit == \E auth \in BOOLEAN : SseClientConstructed(auth)

\* _emitClose (the part that decides): onclose is invoked unless the flag is set.
EmitsClose == ~sc_didEmitClose

\* _emitClose as a step: sets the flag and invokes onclose at most once.
EmitClose ==
    /\ sc_onclose' = IF EmitsClose THEN sc_onclose + 1 ELSE sc_onclose
    /\ sc_didEmitClose' = TRUE

\* The origin check left out.
OriginCheckSkipped(url) == FALSE

\* The origin check of the endpoint event handler.
OriginMismatch(url) == url.origin # sc_url.origin

\* A start() call fails: its promise is rejected. erred records whether the
\* failing path invoked onerror before it threw.
Rejected(st, i, why, erred) ==
    [st EXCEPT ![i].pc = "done", ![i].result = "rejected",
               ![i].failure = why, ![i].erred = erred]

\* _startStream that keeps the endpoint of the attempt before.
StartStreamKeepingEndpoint(i, st) ==
    /\ sc_gets < MaxGets
    /\ sc_didEmitClose' = FALSE
    /\ sc_endpoint' = sc_endpoint
    /\ sc_endpointSeen' = FALSE
    /\ sc_gets' = sc_gets + 1
    /\ sc_abortController' = sc_gets + 1
    /\ sc_start' = [st EXCEPT ![i].pc = "fetch", ![i].ctl = sc_gets + 1,
                              ![i].gets = @ + 1, ![i].resolved = FALSE]

\* _startStream up to its first request: forgets the close flag and the
\* endpoint, installs a fresh AbortController and issues the GET.
StartStream(i, st) ==
    /\ sc_gets < MaxGets
    /\ sc_didEmitClose' = FALSE
    /\ sc_endpoint' = Undefined
    /\ sc_endpointSeen' = FALSE
    /\ sc_gets' = sc_gets + 1
    /\ sc_abortController' = sc_gets + 1
    /\ sc_start' = [st EXCEPT ![i].pc = "fetch", ![i].ctl = sc_gets + 1,
                              ![i].gets = @ + 1, ![i].resolved = FALSE]

\* start(): throws when a controller or a reader is installed, otherwise
\* enters _startStream.
ScStart ==
    /\ sc_nStart < MaxStartCalls
    /\ LET i == sc_nStart + 1 IN
       /\ sc_nStart' = i
       /\ IF sc_abortController # 0 \/ sc_reader # 0
          THEN /\ sc_start' = [sc_start EXCEPT ![i].pc = "done", ![i].result = "usage"]
               /\ UNCHANGED <<sc_didEmitClose, sc_endpoint, sc_endpointSeen, sc_gets,
                              sc_abortController>>
          ELSE StartStream(i, [sc_start EXCEPT ![i].result = "pending"])
    /\ UNCHANGED <<sc_authProvider, sc_reader, sc_aborted, sc_cancelled, sc_posts,
                   sc_events, sc_send, sc_nSend, sc_closing, sc_nClose,
                   sc_onclose, sc_onerror, sc_onmessage>>
    /\ ScFrame

\* The GET fails (network error, or AbortError once the signal is aborted):
\* the catch aborts the controller, clears the field, reports and rethrows.
ScFetchThrows(i) ==
    /\ sc_start[i].pc = "fetch"
    /\ sc_aborted' = sc_aborted \cup {sc_start[i].ctl}
    /\ sc_abortController' = 0
    /\ sc_onerror' = sc_onerror + 1
    /\ sc_start' = Rejected(sc_start, i, "fetch", TRUE)
    /\ UNCHANGED <<sc_authProvider, sc_endpointSeen, sc_endpoint, sc_reader, sc_didEmitClose,
                   sc_cancelled, sc_gets, sc_posts, sc_events, sc_nStart, sc_send,
                   sc_nSend, sc_closing, sc_nClose, sc_onclose, sc_onmessage>>
    /\ ScFrame

\* The GET is answered 401: with an auth provider _authThenStart calls auth,
\* without one the start fails as unauthorized.
ScFetch401(i) ==
    /\ sc_start[i].pc = "fetch"
    /\ sc_start[i].ctl \notin sc_aborted
    /\ sc_abortController' = 0
    /\ IF sc_authProvider
       THEN /\ sc_start' = [sc_start EXCEPT ![i].pc = "auth", ![i].auths = @ + 1]
            /\ UNCHANGED sc_onerror
       ELSE /\ sc_start' = Rejected(sc_start, i, "unauthorized", TRUE)
            /\ sc_onerror' = sc_onerror + 1
    /\ UNCHANGED <<sc_authProvider, sc_endpointSeen, sc_endpoint, sc_reader, sc_didEmitClose,
                   sc_aborted, sc_cancelled, sc_gets, sc_posts, sc_events, sc_nStart,
                   sc_send, sc_nSend, sc_closing, sc_nClose, sc_onclose, sc_onmessage>>
    /\ ScFrame

\* The GET is answered with another non-2xx status (why = "notOk") or with a
\* 2xx response that has no body (why = "noBody").
ScFetchBad(i, why) ==
    /\ sc_start[i].pc = "fetch"
    /\ sc_start[i].ctl \notin sc_aborted
    /\ sc_abortController' = 0
    /\ sc_onerror' = sc_onerror + 1
    /\ sc_start' = Rejected(sc_start, i, why, TRUE)
    /\ UNCHANGED <<sc_authProvider, sc_endpointSeen, sc_endpoint, sc_reader, sc_didEmitClose,
                   sc_aborted, sc_cancelled, sc_gets, sc_posts, sc_events, sc_nStart,
                   sc_send, sc_nSend, sc_closing, sc_nClose, sc_onclose, sc_onmessage>>
    /\ ScFrame

ScFetchNotOk(i) == ScFetchBad(i, "notOk")

ScFetchNoBody(i) == ScFetchBad(i, "noBody")

\* The GET is answered 2xx with a body: the reader is installed and the read
\* loop starts with resolved = false.
ScFetchOk(i) ==
    /\ sc_start[i].pc = "fetch"
    /\ sc_start[i].ctl \notin sc_aborted
    /\ sc_reader' = sc_start[i].ctl
    /\ sc_start' = [sc_start EXCEPT ![i].pc = "read", ![i].resolved = FALSE]
    /\ UNCHANGED <<sc_authProvider, sc_endpointSeen, sc_endpoint, sc_abortController, sc_didEmitClose,
                   sc_aborted, sc_cancelled, sc_gets, sc_posts, sc_events, sc_nStart,
                   sc_send, sc_nSend, sc_closing, sc_nClose, sc_onclose, sc_onerror,
                   sc_onmessage>>
    /\ ScFrame

\* _authThenStart: auth() throws.
ScAuthThrows(i) ==
    /\ sc_start[i].pc = "auth"
    /\ sc_onerror' = sc_onerror + 1
    /\ sc_start' = Rejected(sc_start, i, "authThrew", TRUE)
    /\ UNCHANGED <<sc_authProvider, sc_endpointSeen, sc_endpoint, sc_abortController, sc_reader,
                   sc_didEmitClose, sc_aborted, sc_cancelled, sc_gets, sc_posts,
                   sc_events, sc_nStart, sc_send, sc_nSend, sc_closing, sc_nClose,
                   sc_onclose, sc_onmessage>>
    /\ ScFrame

\* _authThenStart: auth() returns something else than AUTHORIZED.
ScAuthDenied(i) ==
    /\ sc_start[i].pc = "auth"
    /\ sc_start' = Rejected(sc_start, i, "authDenied", FALSE)
    /\ UNCHANGED <<sc_authProvider, sc_endpointSeen, sc_endpoint, sc_abortController, sc_reader,
                   sc_didEmitClose, sc_aborted, sc_cancelled, sc_gets, sc_posts,
                   sc_events, sc_nStart, sc_send, sc_nSend, sc_closing, sc_nClose,
                   sc_onclose, sc_onerror, sc_onmessage>>
    /\ ScFrame

\* _authThenStart: auth() returns AUTHORIZED and _startOrAuth runs again.
ScAuthAuthorized(i) ==
    /\ sc_start[i].pc = "auth"
    /\ StartStream(i, sc_start)
    /\ UNCHANGED <<sc_authProvider, sc_reader, sc_aborted, sc_cancelled, sc_posts,
                   sc_events, sc_nStart, sc_send, sc_nSend, sc_closing, sc_nClose,
                   sc_onclose, sc_onerror, sc_onmessage>>
    /\ ScFrame

\* finish() that takes every end of the stream for a clean close.
FinishAsCleanEnd(i, st, hasError, why) ==
    /\ sc_reader' = 0
    /\ sc_abortController' = 0
    /\ sc_start' = [st EXCEPT ![i].pc = "done",
                              ![i].result = IF @ = "pending" THEN "resolved" ELSE @]
    /\ EmitClose
    /\ UNCHANGED sc_onerror

\* finish(options) of the read loop of call i. It leaves sc_endpoint,
\* sc_events and the counters of the other callbacks to its caller.
Finish(i, st, hasError, why) ==
    /\ sc_reader' = 0
    /\ sc_abortController' = 0
    /\ IF ~st[i].resolved
       THEN /\ sc_start' = Rejected(st, i, why, FALSE)
            /\ UNCHANGED <<sc_onerror, sc_onclose, sc_didEmitClose>>
       ELSE /\ sc_start' = [st EXCEPT ![i].pc = "done"]
            /\ IF hasError
               THEN /\ sc_onerror' = sc_onerror + 1
                    /\ UNCHANGED <<sc_onclose, sc_didEmitClose>>
               ELSE /\ EmitClose
                    /\ UNCHANGED sc_onerror

\* The stream of call i can still yield events.
Live(i) == sc_start[i].ctl \notin sc_aborted /\ sc_start[i].ctl \notin sc_cancelled

\* The read loop reads an endpoint event.
ScReadEndpoint(i, data) ==
    /\ sc_start[i].pc = "read"
    /\ Live(i)
    /\ sc_events < MaxEvents
    /\ sc_events' = sc_events + 1
    /\ sc_endpointSeen' = TRUE
    /\ LET url == NewURL(data, sc_url)
           seen == [sc_start EXCEPT ![i].foreignSeen =
                       @ \/ (url # Undefined /\ url.origin # sc_url.origin)]
       IN IF url = Undefined
          THEN /\ Finish(i, seen, TRUE, "endpoint")
               /\ UNCHANGED sc_endpoint
          ELSE /\ sc_endpoint' = url
               /\ IF OriginMismatch(url)
                  THEN Finish(i, seen, TRUE, "endpoint")
                  ELSE /\ sc_start' = [seen EXCEPT ![i].resolved = TRUE,
                                           ![i].result = IF seen[i].resolved THEN @ ELSE "resolved"]
                       /\ UNCHANGED <<sc_reader, sc_abortController, sc_onerror,
                                      sc_onclose, sc_didEmitClose>>
    /\ UNCHANGED <<sc_authProvider, sc_aborted, sc_cancelled, sc_gets, sc_posts,
                   sc_nStart, sc_send, sc_nSend, sc_closing, sc_nClose, sc_onmessage>>
    /\ ScFrame

\* The read loop reads an event of any other name: skipped before the
\* endpoint event, decoded and delivered after it.
ScReadMessage(i, data) ==
    /\ sc_start[i].pc = "read"
    /\ Live(i)
    /\ sc_events < MaxEvents
    /\ sc_events' = sc_events + 1
    /\ IF ~sc_start[i].resolved
       THEN UNCHANGED <<sc_start, sc_onmessage, sc_onerror>>
       ELSE IF ParsesAsMessage(data)
            THEN /\ sc_onmessage' = sc_onmessage + 1
                 /\ sc_start' = [sc_start EXCEPT ![i].delivered = @ + 1]
                 /\ UNCHANGED sc_onerror
            ELSE /\ sc_onerror' = sc_onerror + 1
                 /\ UNCHANGED <<sc_start, sc_onmessage>>
    /\ UNCHANGED <<sc_authProvider, sc_endpointSeen, sc_endpoint, sc_abortController, sc_reader,
                   sc_didEmitClose, sc_aborted, sc_cancelled, sc_gets, sc_posts,
                   sc_nStart, sc_send, sc_nSend, sc_closing, sc_nClose, sc_onclose>>
    /\ ScFrame

\* reader.read() reports done: the server ended the stream, or the reader
\* was cancelled.
ScReadDone(i) ==
    /\ sc_start[i].pc = "read"
    /\ Finish(i, sc_start, FALSE,
              IF sc_start[i].ctl \in sc_aborted THEN "aborted" ELSE "ended")
    /\ UNCHANGED <<sc_authProvider, sc_endpointSeen, sc_endpoint, sc_aborted, sc_cancelled, sc_gets,
                   sc_posts, sc_events, sc_nStart, sc_send, sc_nSend, sc_closing,
                   sc_nClose, sc_onmessage>>
    /\ ScFrame

\* reader.read() throws: an AbortError once the signal is aborted, a stream
\* error otherwise. A reader that was only cancelled reports done instead.
ScReadThrows(i) ==
    /\ sc_start[i].pc = "read"
    /\ sc_start[i].ctl \in sc_aborted \/ sc_start[i].ctl \notin sc_cancelled
    /\ IF sc_start[i].ctl \in sc_aborted
       THEN Finish(i, sc_start, FALSE, "aborted")
       ELSE Finish(i, sc_start, TRUE, "streamError")
    /\ UNCHANGED <<sc_authProvider, sc_endpointSeen, sc_endpoint, sc_aborted, sc_cancelled, sc_gets,
                   sc_posts, sc_events, sc_nStart, sc_send, sc_nSend, sc_closing,
                   sc_nClose, sc_onmessage>>
    /\ ScFrame

\* close() up to its await: aborts and forgets the controller; with a reader
\* installed it cancels it and suspends, without one it emits close at once.
ScClose ==
    /\ sc_nClose < MaxCloseCalls
    /\ sc_nClose' = sc_nClose + 1
    /\ sc_aborted' = IF sc_abortController # 0
                     THEN sc_aborted \cup {sc_abortController} ELSE sc_aborted
    /\ sc_abortController' = 0
    /\ IF sc_reader # 0
       THEN /\ sc_cancelled' = sc_cancelled \cup {sc_reader}
            /\ sc_closing' = sc_closing + 1
            /\ UNCHANGED <<sc_onclose, sc_didEmitClose>>
       ELSE /\ EmitClose
            /\ UNCHANGED <<sc_cancelled, sc_closing>>
    /\ UNCHANGED <<sc_authProvider, sc_endpointSeen, sc_endpoint, sc_reader, sc_gets, sc_posts,
                   sc_events, sc_start, sc_nStart, sc_send, sc_nSend, sc_onerror,
                   sc_onmessage>>
    /\ ScFrame

\* close() after `await this._reader.cancel()`: forgets the reader, emits close.
ScCloseResume ==
    /\ sc_closing > 0
    /\ sc_closing' = sc_closing - 1
    /\ sc_reader' = 0
    /\ EmitClose
    /\ UNCHANGED <<sc_authProvider, sc_endpointSeen, sc_endpoint, sc_abortController, sc_aborted,
                   sc_cancelled, sc_gets, sc_posts, sc_events, sc_start, sc_nStart,
                   sc_send, sc_nSend, sc_nClose, sc_onerror, sc_onmessage>>
    /\ ScFrame

\* A send() call fails: its promise is rejected; erred as for start().
SendRejected(sd, j, why, erred) ==
    [sd EXCEPT ![j].pc = "done", ![j].result = "rejected", ![j].failure = why,
               ![j].erred = erred]

\* send() from its entry to its POST: throws "Not connected" without an
\* endpoint (outside the try, so without onerror), otherwise POSTs to it.
SendEnter(j, sd) ==
    IF sc_endpoint = Undefined
    THEN /\ sc_send' = [sd EXCEPT ![j].pc = "done", ![j].result = "notConnected"]
         /\ UNCHANGED sc_posts
    ELSE /\ sc_posts < MaxPosts
         /\ sc_posts' = sc_posts + 1
         /\ sc_send' = [sd EXCEPT ![j].pc = "post", ![j].posts = @ + 1,
                                  ![j].target = sc_endpoint]

\* send(message) is called.
ScSend ==
    /\ sc_nSend < MaxSendCalls
    /\ sc_nSend' = sc_nSend + 1
    /\ SendEnter(sc_nSend + 1, [sc_send EXCEPT ![sc_nSend + 1].result = "pending"])
    /\ UNCHANGED <<sc_authProvider, sc_endpointSeen, sc_endpoint, sc_abortController, sc_reader,
                   sc_didEmitClose, sc_aborted, sc_cancelled, sc_gets, sc_events,
                   sc_start, sc_nStart, sc_closing, sc_nClose, sc_onclose,
                   sc_onerror, sc_onmessage>>
    /\ ScFrame

\* The POST is answered 2xx.
ScPostOk(j) ==
    /\ sc_send[j].pc = "post"
    /\ sc_send' = [sc_send EXCEPT ![j].pc = "done", ![j].result = "resolved"]
    /\ UNCHANGED <<sc_authProvider, sc_endpointSeen, sc_endpoint, sc_abortController, sc_reader,
                   sc_didEmitClose, sc_aborted, sc_cancelled, sc_gets, sc_posts,
                   sc_events, sc_start, sc_nStart, sc_nSend, sc_closing, sc_nClose,
                   sc_onclose, sc_onerror, sc_onmessage>>
    /\ ScFrame

\* The POST is answered 401: with an auth provider auth() is called, without
\* one the send fails like on any other non-2xx status.
ScPost401(j) ==
    /\ sc_send[j].pc = "post"
    /\ IF sc_authProvider
       THEN /\ sc_send' = [sc_send EXCEPT ![j].pc = "auth", ![j].auths = @ + 1]
            /\ UNCHANGED sc_onerror
       ELSE /\ sc_send' = SendRejected(sc_send, j, "status", TRUE)
            /\ sc_onerror' = sc_onerror + 1
    /\ UNCHANGED <<sc_authProvider, sc_endpointSeen, sc_endpoint, sc_abortController, sc_reader,
                   sc_didEmitClose, sc_aborted, sc_cancelled, sc_gets, sc_posts,
                   sc_events, sc_start, sc_nStart, sc_nSend, sc_closing, sc_nClose,
                   sc_onclose, sc_onmessage>>
    /\ ScFrame

\* A step of send() that ends in its catch: onerror, then the rethrow.
SendCaught(j, why) ==
    /\ sc_send' = SendRejected(sc_send, j, why, TRUE)
    /\ sc_onerror' = sc_onerror + 1
    /\ UNCHANGED <<sc_authProvider, sc_endpointSeen, sc_endpoint, sc_abortController, sc_reader,
                   sc_didEmitClose, sc_aborted, sc_cancelled, sc_gets, sc_posts,
                   sc_events, sc_start, sc_nStart, sc_nSend, sc_closing, sc_nClose,
                   sc_onclose, sc_onmessage>>
    /\ ScFrame

\* The POST is answered with another non-2xx status.
ScPostNotOk(j) == sc_send[j].pc = "post" /\ SendCaught(j, "status")

\* The POST itself fails (network error, aborted signal).
ScPostThrows(j) == sc_send[j].pc = "post" /\ SendCaught(j, "fetch")

\* auth() of send() throws.
ScSendAuthThrows(j) == sc_send[j].pc = "auth" /\ SendCaught(j, "authThrew")

\* auth() of send() returns something else than AUTHORIZED.
ScSendAuthDenied(j) == sc_send[j].pc = "auth" /\ SendCaught(j, "unauthorized")

\* auth() of send() returns AUTHORIZED: `return this.send(message)`. The
\* inner call's outcome is the outer call's; its own catch reports its errors.
ScSendAuthAuthorized(j) ==
    /\ sc_send[j].pc = "auth"
    /\ SendEnter(j, sc_send)
    /\ UNCHANGED <<sc_authProvider, sc_endpointSeen, sc_endpoint, sc_abortController, sc_reader,
                   sc_didEmitClose, sc_aborted, sc_cancelled, sc_gets, sc_events,
                   sc_start, sc_nStart, sc_nSend, sc_closing, sc_nClose, sc_onclose,
                   sc_onerror, sc_onmessage>>
    /\ ScFrame

StartCalls == 1..MaxStartCalls
SendCalls  == 1..MaxSendCalls

SseClientNext ==
    \/ ScStart
    \/ \E i \in StartCalls : ScFetchThrows(i)
    \/ \E i \in StartCalls : ScFetch401(i)
    \/ \E i \in StartCalls : ScFetchNotOk(i)
    \/ \E i \in StartCalls : ScFetchNoBody(i)
    \/ \E i \in StartCalls : ScFetchOk(i)
    \/ \E i \in StartCalls : ScAuthThrows(i)
    \/ \E i \in StartCalls : ScAuthDenied(i)
    \/ \E i \in StartCalls : ScAuthAuthorized(i)
    \/ \E i \in StartCalls, data \in EndpointData : ScReadEndpoint(i, data)
    \/ \E i \in StartCalls, data \in MessageData : ScReadMessage(i, data)
    \/ \E i \in StartCalls : ScReadDone(i)
    \/ \E i \in StartCalls : ScReadThrows(i)
    \/ ScClose
    \/ ScCloseResume
    \/ ScSend
    \/ \E j \in SendCalls : ScPostOk(j)
    \/ \E j \in SendCalls : ScPost401(j)
    \/ \E j \in SendCalls : ScPostNotOk(j)
    \/ \E j \in SendCalls : ScPostThrows(j)
    \/ \E j \in SendCalls : ScSendAuthThrows(j)
    \/ \E j \in SendCalls : ScSendAuthDenied(j)
    \/ \E j \in SendCalls : ScSendAuthAuthorized(j)

(***************************************************************************)
(* SSEServerTransport: actions.                                            *)
(***************************************************************************)
\* The options a caller can pass: DNS rebinding protection on or off, each
\* allow-list empty (or absent) or holding one value. Without options the
\* constructor installs { enableDnsRebindingProtection: false }.
NoOptions == [enableDnsRebindingProtection |-> FALSE,
              allowedHosts |-> {}, allowedOrigins |-> {}]
SsOptions == [enableDnsRebindingProtection : BOOLEAN,
              allowedHosts : {{}, {"h"}},
              allowedOrigins : {{}, {"https://a"}}]

\* The headers of a POST; "" stands for a header that is absent.
HostHeaders   == {"", "h", "x"}
OriginHeaders == {"", "https://a", "https://b"}
ContentTypeHeaders == {"", "application/json", "Application/JSON; charset=utf-8",
                       "text/plain"}

\* The body of a POST as text: the JSON of a message, JSON that is no
\* message, text that is no JSON. A pre-parsed body is absent, an object
\* (a message or not), or a string.
BodyTexts == {"valid", "badschema", "badjson"}
ParsedBodies == {"undefined", "validObject", "badObject", "badjson"}

\* How handlePostMessage can read the body: req.text, req.on, or neither.
BodySources == {"text", "on", "none"}

MAXIMUM_MESSAGE_SIZE == 4 * 1024 * 1024
BodyLengths == {1, MAXIMUM_MESSAGE_SIZE, MAXIMUM_MESSAGE_SIZE + 1}

PostIdle == [pc |-> "idle", host |-> "", origin |-> "", ctype |-> "",
             parsed |-> "undefined", body |-> "none",
             len |-> 0, open |-> FALSE, status |-> 0, threw |-> FALSE,
             log |-> <<>>]

SseServerConstructed(hasOn, strict, options) ==
    /\ ss_resHasOn = hasOn
    /\ ss_sseResponse = FALSE
    /\ ss_written = <<>>
    /\ ss_resEnded = FALSE
    /\ ss_resClosed = FALSE
    /\ ss_closeListeners = 0
    /\ ss_nStart = 0
    /\ ss_nClose = 0
    /\ ss_nSend = 0
    /\ ss_lastCall = "none"
    /\ ss_onclose = 0
    /\ ss_resStrict = strict
    /\ ss_options = options
    /\ ss_post = PostIdle
    /\ ss_nPost = 0
    /\ ss_onerror = 0
    /\ ss_onmessage = 0

SseServerInit ==
    \E hasOn \in BOOLEAN, strict \in BOOLEAN :
        SseServerConstructed(hasOn, strict, NoOptions)

\* What start(), close(), send() and the close listener leave alone.
SsPostUnchanged == UNCHANGED <<ss_resStrict, ss_options, ss_post, ss_nPost,
                               ss_onerror, ss_onmessage>>

\* The head of the response was sent.
HeadSent == \E n \in 1..Len(ss_written) : ss_written[n] = "head"

\* start(): throws while _sseResponse is set; otherwise writes the head and
\* the endpoint event, keeps the response and registers a close listener.
\* writeHead of a response that refuses a second head throws before anything
\* is written or kept.
SsStart ==
    /\ ss_nStart < MaxSsStarts
    /\ ss_nStart' = ss_nStart + 1
    /\ IF ss_sseResponse
       THEN /\ ss_lastCall' = "alreadyStarted"
            /\ UNCHANGED <<ss_written, ss_sseResponse, ss_closeListeners>>
       ELSE IF ss_resStrict /\ HeadSent
       THEN /\ ss_lastCall' = "headersSent"
            /\ UNCHANGED <<ss_written, ss_sseResponse, ss_closeListeners>>
       ELSE /\ ss_lastCall' = "started"
            /\ ss_written' = ss_written \o <<"head", "endpoint">>
            /\ ss_sseResponse' = TRUE
            /\ ss_closeListeners' = IF ss_resHasOn THEN ss_closeListeners + 1
                                    ELSE ss_closeListeners
    /\ UNCHANGED <<ss_resHasOn, ss_resEnded, ss_resClosed, ss_nClose, ss_nSend,
                   ss_onclose>>
    /\ SsPostUnchanged
    /\ SsFrame

\* close(): ends the kept response, forgets it and invokes onclose.
SsClose ==
    /\ ss_nClose < MaxSsCloses
    /\ ss_nClose' = ss_nClose + 1
    /\ ss_resEnded' = (ss_resEnded \/ ss_sseResponse)
    /\ ss_sseResponse' = FALSE
    /\ ss_onclose' = ss_onclose + 1
    /\ ss_lastCall' = "closed"
    /\ UNCHANGED <<ss_resHasOn, ss_written, ss_resClosed, ss_closeListeners,
                   ss_nStart, ss_nSend>>
    /\ SsPostUnchanged
    /\ SsFrame

\* The response emits close (the connection dropped, or end() completed):
\* every listener start() registered forgets the response and invokes onclose.
SsResClose ==
    /\ ~ss_resClosed
    /\ ss_resClosed' = TRUE
    /\ ss_sseResponse' = (ss_sseResponse /\ ss_closeListeners = 0)
    /\ ss_onclose' = ss_onclose + ss_closeListeners
    /\ UNCHANGED <<ss_resHasOn, ss_written, ss_resEnded, ss_closeListeners,
                   ss_nStart, ss_nClose, ss_nSend, ss_lastCall>>
    /\ SsPostUnchanged
    /\ SsFrame

\* send(): throws "Not connected" without a kept response, otherwise writes
\* a message event to it.
SsSend ==
    /\ ss_nSend < MaxSsSends
    /\ ss_nSend' = ss_nSend + 1
    /\ IF ~ss_sseResponse
       THEN /\ ss_lastCall' = "notConnected"
            /\ UNCHANGED ss_written
       ELSE /\ ss_lastCall' = "sent"
            /\ ss_written' = Append(ss_written, "message")
    /\ UNCHANGED <<ss_resHasOn, ss_sseResponse, ss_resEnded, ss_resClosed,
                   ss_closeListeners, ss_nStart, ss_nClose, ss_onclose>>
    /\ SsPostUnchanged
    /\ SsFrame

SseServerNext ==
    \/ SsStart
    \/ SsClose
    \/ SsResClose
    \/ SsSend

\* validateRequestHeaders without its Origin check.
ValidateHostOnly(options, host, origin) ==
    IF options.enableDnsRebindingProtection /\ options.allowedHosts # {}
       /\ (host = "" \/ host \notin options.allowedHosts)
    THEN "Invalid Host header"
    ELSE ""

\* validateRequestHeaders: "" when the request passes, the error message
\* otherwise. An absent header and an empty one are both falsy.
ValidateRequestHeaders(options, host, origin) ==
    IF ~options.enableDnsRebindingProtection THEN ""
    ELSE IF options.allowedHosts # {}
            /\ (host = "" \/ host \notin options.allowedHosts)
    THEN "Invalid Host header"
    ELSE IF options.allowedOrigins # {}
            /\ (origin = "" \/ origin \notin options.allowedOrigins)
    THEN "Invalid Origin header"
    ELSE ""

\* The content type taken for granted.
ContentTypeIgnored(header) == "application/json"

\* contentType.parse(header).type: the media type in lower case without its
\* parameters; an empty header is no media type and makes parse throw.
ContentTypeOf(header) ==
    CASE header = "application/json"                -> "application/json"
      [] header = "Application/JSON; charset=utf-8" -> "application/json"
      [] header = "text/plain"                      -> "text/plain"
      [] OTHER                                      -> "throws"

\* typeof body === 'string'
IsString(body) == body \in BodyTexts

\* JSON.parse(body) returns.
JsonParses(body) == body # "badjson"

\* A schema that accepts every value.
SchemaAcceptsAll(value) == TRUE

\* JSONRPCMessageSchema.parse(value) returns.
SchemaParses(value) == value \in {"valid", "validObject"}

\* A handler that goes on to answer 202 after it refused the message.
HandleBodyAnsweringTwice(body) ==
    IF IsString(body) /\ ~JsonParses(body)
    THEN <<"400", "202">>
    ELSE IF ~SchemaParses(body)
    THEN <<"onerror", "400", "202">>
    ELSE <<"onmessage", "202">>

\* The end of handlePostMessage for a body it has got: JSON.parse of a
\* string body, handleMessage, and the response. What it does, in order.
HandleBody(body) ==
    IF IsString(body) /\ ~JsonParses(body)
    THEN <<"400">>
    ELSE IF ~SchemaParses(body)
    THEN <<"onerror", "400">>
    ELSE <<"onmessage", "202">>

\* The response status in what a request did.
StatusOf(log) ==
    CASE \E n \in 1..Len(log) : log[n] = "202" -> 202
      [] \E n \in 1..Len(log) : log[n] = "400" -> 400
      [] \E n \in 1..Len(log) : log[n] = "403" -> 403
      [] \E n \in 1..Len(log) : log[n] = "500" -> 500
      [] OTHER -> 0

\* How often a request invoked a callback.
Count(log, e) == Cardinality({i \in DOMAIN log : log[i] = e})

\* What handlePostMessage does when it refuses a request: without a stream
\* (it then throws), for its headers, and for its content type or body.
NotEstablished == <<"500">>
ForbiddenSilently == <<"403">>
Forbidden      == <<"403", "onerror">>
BadRequest     == <<"400", "onerror">>

\* handlePostMessage returns or throws having done `log`.
PostEnds(post, log, threw) ==
    /\ ss_lastCall' = "post"
    /\ ss_post' = [post EXCEPT !.pc = "done", !.log = log,
                               !.status = StatusOf(log), !.threw = threw]
    /\ ss_onerror' = ss_onerror + Count(log, "onerror")
    /\ ss_onmessage' = ss_onmessage + Count(log, "onmessage")

\* handlePostMessage(req, res, parsedBody) up to its first await, or to its
\* end when it needs none: the stream check, the header validation, the
\* content type, and the choice of where the body comes from.
SsPost(host, origin, ctype, parsed, source) ==
    /\ ss_nPost < MaxSsPosts
    /\ ss_post.pc # "reading"
    /\ ss_nPost' = ss_nPost + 1
    /\ LET post == [PostIdle EXCEPT !.host = host, !.origin = origin,
                                    !.ctype = ctype, !.parsed = parsed,
                                    !.open = ss_sseResponse]
       IN IF ~ss_sseResponse
          THEN PostEnds(post, NotEstablished, TRUE)
          ELSE IF ValidateRequestHeaders(ss_options, host, origin) # ""
          THEN PostEnds(post, Forbidden, FALSE)
          ELSE IF ContentTypeOf(ctype) # "application/json"
          THEN PostEnds(post, BadRequest, FALSE)
          ELSE IF parsed # "undefined"
          THEN PostEnds([post EXCEPT !.body = parsed], HandleBody(parsed), FALSE)
          ELSE IF source = "none"
          THEN PostEnds(post, BadRequest, FALSE)
          ELSE /\ ss_post' = [post EXCEPT !.pc = "reading"]
               /\ ss_lastCall' = "post"
               /\ UNCHANGED <<ss_onerror, ss_onmessage>>
    /\ UNCHANGED <<ss_resHasOn, ss_sseResponse, ss_written, ss_resEnded,
                   ss_resClosed, ss_closeListeners, ss_nStart, ss_nClose, ss_nSend,
                   ss_onclose, ss_resStrict, ss_options>>
    /\ SsFrame

\* The body of the request has been read: req.text() resolved, or the
\* request emitted end. A body over the maximum is refused.
SsPostBody(body, len) ==
    /\ ss_post.pc = "reading"
    /\ LET post == [ss_post EXCEPT !.body = body, !.len = len]
       IN IF len > MAXIMUM_MESSAGE_SIZE
          THEN PostEnds(post, BadRequest, FALSE)
          ELSE PostEnds(post, HandleBody(body), FALSE)
    /\ UNCHANGED <<ss_resHasOn, ss_sseResponse, ss_written, ss_resEnded,
                   ss_resClosed, ss_closeListeners, ss_nStart, ss_nClose, ss_nSend,
                   ss_onclose, ss_resStrict, ss_options, ss_nPost>>
    /\ SsFrame

\* Reading the body fails: req.text() rejects, or the request emits error.
SsPostBodyFails ==
    /\ ss_post.pc = "reading"
    /\ PostEnds(ss_post, BadRequest, FALSE)
    /\ UNCHANGED <<ss_resHasOn, ss_sseResponse, ss_written, ss_resEnded,
                   ss_resClosed, ss_closeListeners, ss_nStart, ss_nClose, ss_nSend,
                   ss_onclose, ss_resStrict, ss_options, ss_nPost>>
    /\ SsFrame

\* The requests the model draws from: every Host and Origin header on a
\* request that is otherwise well-formed or has the wrong content type, and
\* every content type, pre-parsed body and body source on a request whose
\* Host and Origin are the allowed ones.
HeaderRequests ==
    [host : HostHeaders, origin : OriginHeaders,
     ctype : {"application/json", "text/plain"},
     parsed : {"undefined", "validObject"}, source : {"text"}]
BodyRequests ==
    [host : {"h"}, origin : {"https://a"}, ctype : ContentTypeHeaders,
     parsed : ParsedBodies, source : BodySources]
Requests == HeaderRequests \cup BodyRequests

SsePostNext ==
    \/ SseServerNext
    \/ \E req \in Requests :
          SsPost(req.host, req.origin, req.ctype, req.parsed, req.source)
    \/ \E body \in BodyTexts, len \in BodyLengths : SsPostBody(body, len)
    \/ SsPostBodyFails

(***************************************************************************)
(* Framing of the stdio transports: one JSON text per line. A byte is a    *)
(* one-character string, a message is its id.                              *)
(***************************************************************************)
NL == "\n"
Messages == {1, 2}
Digit(m) == IF m = 1 THEN "1" ELSE "2"

\* serializeMessage: the JSON text of the message and a newline.
SerializeMessage(m) == <<"{", Digit(m), "}", NL>>

\* deserializeMessage: the message a line encodes, or 0 when JSON.parse or
\* the schema rejects it (the call throws).
DeserializeMessage(line) ==
    IF Len(line) = 3 /\ line[1] = "{" /\ line[3] = "}" /\ line[2] \in {"1", "2"}
    THEN IF line[2] = "1" THEN 1 ELSE 2
    ELSE 0

\* ReadBuffer.append
ReadBufferAppend(buffer, chunk) == buffer \o chunk

\* Position of the first newline of the buffer, 0 without one.
IndexOfNL(buffer) ==
    IF \E i \in 1..Len(buffer) : buffer[i] = NL
    THEN CHOOSE i \in 1..Len(buffer) :
            buffer[i] = NL /\ \A k \in 1..(i - 1) : buffer[k] # NL
    ELSE 0

\* ReadBuffer.readMessage: without a newline null (found = FALSE); otherwise
\* the first line is taken off the buffer and then decoded.
ReadMessage(buffer) ==
    LET idx == IndexOfNL(buffer) IN
    IF idx = 0
    THEN [found |-> FALSE, message |-> 0, rest |-> buffer]
    ELSE [found |-> TRUE,
          message |-> DeserializeMessage(SubSeq(buffer, 1, idx - 1)),
          rest |-> SubSeq(buffer, idx + 1, Len(buffer))]

\* The lines the peer can write: the encodings of the messages, a truncated
\* JSON text and the empty line.
ValidLines == {SubSeq(SerializeMessage(m), 1, 3) : m \in Messages}
MalformedLines == {<<"{", "1">>, <<>>}
Lines == ValidLines \cup MalformedLines

\* The byte sequences of at most n lines, each ended by a newline.
RECURSIVE WiresOf(_)
WiresOf(n) ==
    IF n = 0 THEN {<<>>}
    ELSE LET shorter == WiresOf(n - 1) IN
         shorter \cup {w \o l \o <<NL>> : w \in shorter, l \in Lines}

Wires == WiresOf(MaxLines)

(***************************************************************************)
(* StdioServerTransport: actions.                                          *)
(***************************************************************************)
DsNoCalls == [start |-> 0, close |-> 0, send |-> 0, err |-> 0, data |-> 0]

StdioServerConstructed(input, others) ==
    /\ ds_input = input
    /\ ds_fed = 0
    /\ ds_others = others
    /\ ds_started = FALSE
    /\ ds_listening = FALSE
    /\ ds_paused = FALSE
    /\ ds_readBuffer = <<>>
    /\ ds_delivered = <<>>
    /\ ds_onerror = 0
    /\ ds_onclose = 0
    /\ ds_out = <<>>
    /\ ds_awaitDrain = 0
    /\ ds_sent = 0
    /\ ds_calls = DsNoCalls

StdioServerInit ==
    \E input \in Wires, others \in 0..1 : StdioServerConstructed(input, others)

\* processReadBuffer with an `if` for the `while`: one line per data event.
DsProcessOneLine(r) ==
    LET got == ReadMessage(r.buf) IN
    IF ~got.found THEN r
    ELSE IF got.message # 0
         THEN [buf |-> got.rest, msgs |-> Append(r.msgs, got.message), errs |-> r.errs]
         ELSE [buf |-> got.rest, msgs |-> r.msgs, errs |-> r.errs + 1]

\* processReadBuffer, from the state r = [buf, msgs, errs] of the buffer and
\* of the callbacks: takes messages off the buffer until readMessage returns
\* null, giving each to onmessage and each decode error to onerror.
RECURSIVE DsProcessReadBuffer(_)
DsProcessReadBuffer(r) ==
    LET got == ReadMessage(r.buf) IN
    IF ~got.found THEN r
    ELSE IF got.message # 0
         THEN DsProcessReadBuffer([buf |-> got.rest,
                                   msgs |-> Append(r.msgs, got.message),
                                   errs |-> r.errs])
         ELSE DsProcessReadBuffer([buf |-> got.rest, msgs |-> r.msgs,
                                   errs |-> r.errs + 1])

\* start(): throws once started, otherwise attaches the two listeners.
DsStart ==
    /\ ds_calls.start < MaxDsStarts
    /\ ds_calls' = [ds_calls EXCEPT !.start = @ + 1]
    /\ IF ds_started
       THEN UNCHANGED <<ds_started, ds_listening>>
       ELSE /\ ds_started' = TRUE
            /\ ds_listening' = TRUE
    /\ UNCHANGED <<ds_input, ds_fed, ds_others, ds_paused, ds_readBuffer,
                   ds_delivered, ds_onerror, ds_onclose, ds_out, ds_awaitDrain,
                   ds_sent>>
    /\ DsFrame

\* _ondata: stdin hands the next k bytes to the data listener, which appends
\* them to the buffer and drains it.
DsOnData(k) ==
    /\ ds_listening
    /\ ~ds_paused
    /\ k \in 1..(Len(ds_input) - ds_fed)
    /\ ds_fed' = ds_fed + k
    /\ LET chunk == SubSeq(ds_input, ds_fed + 1, ds_fed + k)
           r == DsProcessReadBuffer([buf |-> ReadBufferAppend(ds_readBuffer, chunk),
                                     msgs |-> ds_delivered, errs |-> ds_onerror])
       IN /\ ds_readBuffer' = r.buf
          /\ ds_delivered' = r.msgs
          /\ ds_onerror' = r.errs
    /\ ds_calls' = [ds_calls EXCEPT !.data = @ + 1]
    /\ UNCHANGED <<ds_input, ds_others, ds_started, ds_listening, ds_paused,
                   ds_onclose, ds_out, ds_awaitDrain, ds_sent>>
    /\ DsFrame

\* _onerror: stdin emits an error.
DsOnError ==
    /\ ds_listening
    /\ ds_calls.err < MaxPipeErrors
    /\ ds_calls' = [ds_calls EXCEPT !.err = @ + 1]
    /\ ds_onerror' = ds_onerror + 1
    /\ UNCHANGED <<ds_input, ds_fed, ds_others, ds_started, ds_listening, ds_paused,
                   ds_readBuffer, ds_delivered, ds_onclose, ds_out, ds_awaitDrain,
                   ds_sent>>
    /\ DsFrame

\* close() that pauses stdin without counting the data listeners left.
DsCloseAlwaysPausing ==
    /\ ds_calls.close < MaxDsCloses
    /\ ds_calls' = [ds_calls EXCEPT !.close = @ + 1]
    /\ ds_listening' = FALSE
    /\ ds_paused' = TRUE
    /\ ds_readBuffer' = <<>>
    /\ ds_onclose' = ds_onclose + 1
    /\ UNCHANGED <<ds_input, ds_fed, ds_others, ds_started, ds_delivered,
                   ds_onerror, ds_out, ds_awaitDrain, ds_sent>>
    /\ DsFrame

\* close(): detaches the listeners, pauses stdin when no data listener is
\* left, clears the buffer and invokes onclose.
DsClose ==
    /\ ds_calls.close < MaxDsCloses
    /\ ds_calls' = [ds_calls EXCEPT !.close = @ + 1]
    /\ ds_listening' = FALSE
    /\ ds_paused' = (ds_paused \/ ds_others = 0)
    /\ ds_readBuffer' = <<>>
    /\ ds_onclose' = ds_onclose + 1
    /\ UNCHANGED <<ds_input, ds_fed, ds_others, ds_started, ds_delivered,
                   ds_onerror, ds_out, ds_awaitDrain, ds_sent>>
    /\ DsFrame

\* send() that resolves at once whatever write() returns.
DsSendNeverWaiting(m, accepted) ==
    /\ ds_calls.send < MaxDsSends
    /\ ds_calls' = [ds_calls EXCEPT !.send = @ + 1]
    /\ ds_out' = Append(ds_out, [json |-> SerializeMessage(m), accepted |-> accepted])
    /\ ds_sent' = ds_sent + 1
    /\ UNCHANGED <<ds_input, ds_fed, ds_others, ds_started, ds_listening, ds_paused,
                   ds_readBuffer, ds_delivered, ds_onerror, ds_onclose, ds_awaitDrain>>
    /\ DsFrame

\* send(): writes the encoded message to stdout; the promise resolves at
\* once when write() returns true and on the next drain event otherwise.
DsSend(m, accepted) ==
    /\ ds_calls.send < MaxDsSends
    /\ ds_calls' = [ds_calls EXCEPT !.send = @ + 1]
    /\ ds_out' = Append(ds_out, [json |-> SerializeMessage(m), accepted |-> accepted])
    /\ IF accepted
       THEN /\ ds_sent' = ds_sent + 1
            /\ UNCHANGED ds_awaitDrain
       ELSE /\ ds_awaitDrain' = ds_awaitDrain + 1
            /\ UNCHANGED ds_sent
    /\ UNCHANGED <<ds_input, ds_fed, ds_others, ds_started, ds_listening, ds_paused,
                   ds_readBuffer, ds_delivered, ds_onerror, ds_onclose>>
    /\ DsFrame

\* stdout emits drain: every listener registered with once('drain') runs.
DsDrain ==
    /\ ds_awaitDrain > 0
    /\ ds_sent' = ds_sent + ds_awaitDrain
    /\ ds_awaitDrain' = 0
    /\ UNCHANGED <<ds_input, ds_fed, ds_others, ds_started, ds_listening, ds_paused,
                   ds_readBuffer, ds_delivered, ds_onerror, ds_onclose, ds_out,
                   ds_calls>>
    /\ DsFrame

StdioServerNext ==
    \/ DsStart
    \/ \E k \in 1..Len(ds_input) : DsOnData(k)
    \/ DsOnError
    \/ DsClose
    \/ \E m \in Messages, accepted \in BOOLEAN : DsSend(m, accepted)
    \/ DsDrain

(***************************************************************************)
(* StdioClientTransport: actions.                                          *)
(***************************************************************************)
\* DEFAULT_INHERITED_ENV_VARS on a platform other than win32.
DEFAULT_INHERITED_ENV_VARS == {"HOME", "LOGNAME", "PATH", "SHELL", "TERM", "USER"}

\* Values of environment variables, as character sequences: a path, an
\* exported shell function "() {", and a value that only begins with "(".
PlainValue == <<"/", "b">>
FnValue    == <<"(", ")", " ", "{">>
ParenValue == <<"(", "x">>

\* String.prototype.startsWith
StartsWith(value, prefix) ==
    Len(value) >= Len(prefix) /\ SubSeq(value, 1, Len(prefix)) = prefix

\* The test of getDefaultEnvironment for a function definition.
IsFunctionValue(value) == StartsWith(value, <<"(", ")">>)

\* getDefaultEnvironment(): the variables of DEFAULT_INHERITED_ENV_VARS that
\* are set in process.env and hold no function definition.
GetDefaultEnvironment(processEnv) ==
    [key \in {k \in DEFAULT_INHERITED_ENV_VARS \cap DOMAIN processEnv :
                 ~IsFunctionValue(processEnv[k])} |-> processEnv[key]]

\* { ...a, ...b }
Spread(a, b) ==
    [key \in DOMAIN a \cup DOMAIN b |-> IF key \in DOMAIN b THEN b[key] ELSE a[key]]

\* The env option start() passes to spawn.
SpawnEnv(processEnv, serverEnv) ==
    Spread(GetDefaultEnvironment(processEnv), serverEnv)

\* The environments of the parent and the overrides of the caller that the
\* model draws from (an absent _serverParams.env spreads like an empty one).
EnvsOver(keys, values) ==
    UNION {[ks -> values] : ks \in SUBSET keys}
ProcessEnvs == EnvsOver({"PATH", "SECRET"}, {PlainValue, FnValue, ParenValue})
ServerEnvs  == EnvsOver({"PATH", "EXTRA"}, {PlainValue, FnValue})
NoEnv == [key \in {} |-> PlainValue]

DcNoCalls == [start |-> 0, close |-> 0, err |-> 0, data |-> 0, failed |-> 0,
              send |-> 0]
DcStartIdle == [pc |-> "idle", result |-> "none"]
DcNoProc == [state |-> "none", env |-> NoEnv, abortError |-> FALSE, pipedTo |-> 0]

\* _serverParams.stderr: absent ("inherit" is the default), or one of the two
\* values that capture the child's stderr.
StderrOptions == {"inherit", "pipe", "overlapped"}
StderrCaptured == dc_stderr \in {"pipe", "overlapped"}

\* loadNodeModules(), the part after the imports: the first call to get
\* there keeps the PassThrough class and, when stderr is captured, creates
\* the pass-through stream.
StderrStreamAfterLoad(p) ==
    IF ~dc_PassThrough /\ StderrCaptured THEN p ELSE dc_stderrStream

\* stderr of a child: a stream when it was spawned with a pipe, else null (0).
ChildHasStderr == StderrCaptured

\* The stderr accessor: the pass-through stream when there is one, else the
\* stderr of the current child, else null.
Stderr ==
    IF dc_stderrStream # 0 THEN "passThrough"
    ELSE IF dc_process # 0 /\ ChildHasStderr THEN "childStderr"
    ELSE "null"
DcStarts == 1..MaxDcStarts
DcNoSends == [out |-> <<>>, awaitDrain |-> [p \in DcStarts |-> 0], sent |-> 0,
              notConnected |-> 0]

StdioClientConstructed(processEnv, serverEnv, stderr, input) ==
    /\ dc_processEnv = processEnv
    /\ dc_serverEnv = serverEnv
    /\ dc_stderr = stderr
    /\ dc_PassThrough = FALSE
    /\ dc_stderrStream = 0
    /\ dc_input = input
    /\ dc_fed = 0
    /\ dc_process = 0
    /\ dc_aborted = FALSE
    /\ dc_readBuffer = <<>>
    /\ dc_start = [p \in DcStarts |-> DcStartIdle]
    /\ dc_proc = [p \in DcStarts |-> DcNoProc]
    /\ dc_delivered = <<>>
    /\ dc_onerror = 0
    /\ dc_onclose = 0
    /\ dc_calls = DcNoCalls
    /\ dc_send = DcNoSends

\* processReadBuffer with the try around the loop: a decode error ends it.
RECURSIVE DcProcessUntilError(_)
DcProcessUntilError(r) ==
    LET got == ReadMessage(r.buf) IN
    IF ~got.found THEN r
    ELSE IF got.message # 0
         THEN DcProcessUntilError([buf |-> got.rest,
                                   msgs |-> Append(r.msgs, got.message),
                                   errs |-> r.errs])
         ELSE [buf |-> got.rest, msgs |-> r.msgs, errs |-> r.errs + 1]

\* processReadBuffer of the client: the same loop as the server's.
RECURSIVE DcProcessReadBuffer(_)
DcProcessReadBuffer(r) ==
    LET got == ReadMessage(r.buf) IN
    IF ~got.found THEN r
    ELSE IF got.message # 0
         THEN DcProcessReadBuffer([buf |-> got.rest,
                                   msgs |-> Append(r.msgs, got.message),
                                   errs |-> r.errs])
         ELSE DcProcessReadBuffer([buf |-> got.rest, msgs |-> r.msgs,
                                   errs |-> r.errs + 1])

\* start() up to `await this.loadNodeModules()`: throws while _process is set.
DcStart ==
    /\ dc_calls.start < MaxDcStarts
    /\ dc_calls' = [dc_calls EXCEPT !.start = @ + 1]
    /\ LET p == dc_calls.start + 1 IN
       dc_start' = [dc_start EXCEPT ![p] =
                       IF dc_process # 0
                       THEN [pc |-> "done", result |-> "usage"]
                       ELSE [pc |-> "loading", result |-> "pending"]]
    /\ UNCHANGED <<dc_processEnv, dc_serverEnv, dc_stderr, dc_PassThrough,
                   dc_stderrStream, dc_send, dc_input, dc_fed, dc_process,
                   dc_aborted, dc_readBuffer, dc_proc, dc_delivered, dc_onerror,
                   dc_onclose>>
    /\ DcFrame

\* loadNodeModules() throws: cross-spawn cannot be imported.
DcLoadFails(p) ==
    /\ dc_start[p].pc = "loading"
    /\ dc_start' = [dc_start EXCEPT ![p] = [pc |-> "done", result |-> "rejected"]]
    /\ UNCHANGED <<dc_processEnv, dc_serverEnv, dc_stderr, dc_PassThrough,
                   dc_stderrStream, dc_send, dc_input, dc_fed, dc_process,
                   dc_aborted, dc_readBuffer, dc_proc, dc_delivered, dc_onerror,
                   dc_onclose, dc_calls>>
    /\ DcFrame

\* start() after `await this.loadNodeModules()` (the imports and what follows
\* them are one step): spawns the child with the merged environment and
\* the transport's abort signal, keeps it in _process and attaches the
\* listeners.
DcSpawn(p) ==
    /\ dc_start[p].pc = "loading"
    /\ dc_start' = [dc_start EXCEPT ![p].pc = "spawned"]
    /\ dc_PassThrough' = TRUE
    /\ dc_stderrStream' = StderrStreamAfterLoad(p)
    /\ dc_process' = p
    /\ dc_proc' = [dc_proc EXCEPT ![p] =
                      [state |-> "starting",
                       env |-> SpawnEnv(dc_processEnv, dc_serverEnv),
                       abortError |-> FALSE,
                       pipedTo |-> IF ChildHasStderr
                                   THEN StderrStreamAfterLoad(p) ELSE 0]]
    /\ UNCHANGED <<dc_processEnv, dc_serverEnv, dc_stderr, dc_input, dc_fed,
                   dc_aborted, dc_readBuffer, dc_delivered, dc_onerror, dc_onclose,
                   dc_calls, dc_send>>
    /\ DcFrame

\* The child emits spawn: the promise of its start() resolves.
DcOnSpawn(p) ==
    /\ dc_proc[p].state = "starting"
    /\ dc_proc' = [dc_proc EXCEPT ![p].state = "running"]
    /\ dc_start' = [dc_start EXCEPT ![p].result = IF @ = "pending" THEN "resolved" ELSE @]
    /\ UNCHANGED <<dc_processEnv, dc_serverEnv, dc_stderr, dc_PassThrough,
                   dc_stderrStream, dc_send, dc_input, dc_fed, dc_process,
                   dc_aborted, dc_readBuffer, dc_delivered, dc_onerror, dc_onclose,
                   dc_calls>>
    /\ DcFrame

\* The child emits an error that is no AbortError (the spawn failed): the
\* promise of its start() is rejected and onerror invoked.
DcOnError(p) ==
    /\ dc_proc[p].state = "starting"
    /\ dc_proc' = [dc_proc EXCEPT ![p].state = "failed"]
    /\ dc_start' = [dc_start EXCEPT ![p].result = IF @ = "pending" THEN "rejected" ELSE @]
    /\ dc_onerror' = dc_onerror + 1
    /\ dc_calls' = [dc_calls EXCEPT !.failed = @ + 1]
    /\ UNCHANGED <<dc_processEnv, dc_serverEnv, dc_stderr, dc_PassThrough,
                   dc_stderrStream, dc_send, dc_input, dc_fed, dc_process,
                   dc_aborted, dc_readBuffer, dc_delivered, dc_onclose>>
    /\ DcFrame

\* An error listener without the AbortError branch: the AbortError is
\* reported like any other error.
DcOnAbortErrorAsError(p) ==
    /\ dc_aborted
    /\ dc_proc[p].state \in {"starting", "running"}
    /\ ~dc_proc[p].abortError
    /\ dc_proc' = [dc_proc EXCEPT ![p].abortError = TRUE]
    /\ dc_start' = [dc_start EXCEPT ![p].result = IF @ = "pending" THEN "rejected" ELSE @]
    /\ dc_onerror' = dc_onerror + 1
    /\ UNCHANGED <<dc_processEnv, dc_serverEnv, dc_stderr, dc_PassThrough,
                   dc_stderrStream, dc_send, dc_input, dc_fed, dc_process, dc_aborted,
                   dc_readBuffer, dc_delivered, dc_onclose, dc_calls>>
    /\ DcFrame

\* The child emits the AbortError of the aborted signal, once: the error
\* listener invokes onclose and returns.
DcOnAbortError(p) ==
    /\ dc_aborted
    /\ dc_proc[p].state \in {"starting", "running"}
    /\ ~dc_proc[p].abortError
    /\ dc_proc' = [dc_proc EXCEPT ![p].abortError = TRUE]
    /\ dc_onclose' = dc_onclose + 1
    /\ UNCHANGED <<dc_processEnv, dc_serverEnv, dc_stderr, dc_PassThrough,
                   dc_stderrStream, dc_send, dc_input, dc_fed, dc_process,
                   dc_aborted, dc_readBuffer, dc_start, dc_delivered, dc_onerror,
                   dc_calls>>
    /\ DcFrame

\* The child emits close (it exited, or its spawn failed): the close
\* listener forgets _process and invokes onclose.
DcOnClose(p) ==
    /\ \/ dc_proc[p].state \in {"running", "failed"}
       \/ (dc_proc[p].state = "starting" /\ dc_proc[p].abortError)
    /\ dc_proc' = [dc_proc EXCEPT ![p].state = "gone"]
    /\ dc_process' = 0
    /\ dc_onclose' = dc_onclose + 1
    /\ UNCHANGED <<dc_processEnv, dc_serverEnv, dc_stderr, dc_PassThrough,
                   dc_stderrStream, dc_send, dc_input, dc_fed, dc_aborted,
                   dc_readBuffer, dc_start, dc_delivered, dc_onerror, dc_calls>>
    /\ DcFrame

\* The stdout data listener of a running child is given the next k bytes:
\* it appends them to the buffer and drains it.
DcOnData(p, k) ==
    /\ dc_proc[p].state = "running"
    /\ k \in 1..(Len(dc_input) - dc_fed)
    /\ dc_fed' = dc_fed + k
    /\ LET chunk == SubSeq(dc_input, dc_fed + 1, dc_fed + k)
           r == DcProcessReadBuffer([buf |-> ReadBufferAppend(dc_readBuffer, chunk),
                                     msgs |-> dc_delivered, errs |-> dc_onerror])
       IN /\ dc_readBuffer' = r.buf
          /\ dc_delivered' = r.msgs
          /\ dc_onerror' = r.errs
    /\ dc_calls' = [dc_calls EXCEPT !.data = @ + 1]
    /\ UNCHANGED <<dc_processEnv, dc_serverEnv, dc_stderr, dc_PassThrough,
                   dc_stderrStream, dc_send, dc_input, dc_process, dc_aborted,
                   dc_start, dc_proc, dc_onclose>>
    /\ DcFrame

\* stdin or stdout of a child emits an error.
DcOnPipeError(p) ==
    /\ dc_proc[p].state \in {"starting", "running"}
    /\ dc_calls.err < MaxPipeErrors
    /\ dc_calls' = [dc_calls EXCEPT !.err = @ + 1]
    /\ dc_onerror' = dc_onerror + 1
    /\ UNCHANGED <<dc_processEnv, dc_serverEnv, dc_stderr, dc_PassThrough,
                   dc_stderrStream, dc_send, dc_input, dc_fed, dc_process,
                   dc_aborted, dc_readBuffer, dc_start, dc_proc, dc_delivered,
                   dc_onclose>>
    /\ DcFrame

\* close(): aborts the signal given to spawn, forgets _process and clears
\* the buffer.
DcClose ==
    /\ dc_calls.close < MaxDcCloses
    /\ dc_calls' = [dc_calls EXCEPT !.close = @ + 1]
    /\ dc_aborted' = TRUE
    /\ dc_process' = 0
    /\ dc_readBuffer' = <<>>
    /\ UNCHANGED <<dc_processEnv, dc_serverEnv, dc_stderr, dc_PassThrough,
                   dc_stderrStream, dc_send, dc_input, dc_fed, dc_start, dc_proc,
                   dc_delivered, dc_onerror, dc_onclose>>
    /\ DcFrame

\* send(): rejects as not connected without a child; otherwise writes the
\* encoded message to the stdin of the current child, and the promise
\* resolves at once when write() returns true and on the next drain event of
\* that stdin otherwise.
DcSend(m, accepted) ==
    /\ dc_calls.send < MaxDcSends
    /\ dc_calls' = [dc_calls EXCEPT !.send = @ + 1]
    /\ IF dc_process = 0
       THEN dc_send' = [dc_send EXCEPT !.notConnected = @ + 1]
       ELSE dc_send' = [dc_send EXCEPT
                           !.out = Append(@, [child |-> dc_process,
                                              json |-> SerializeMessage(m),
                                              accepted |-> accepted]),
                           !.sent = IF accepted THEN @ + 1 ELSE @,
                           !.awaitDrain[dc_process] = IF accepted THEN @ ELSE @ + 1]
    /\ UNCHANGED <<dc_processEnv, dc_serverEnv, dc_stderr, dc_PassThrough,
                   dc_stderrStream, dc_input, dc_fed, dc_process, dc_aborted,
                   dc_readBuffer, dc_start, dc_proc, dc_delivered, dc_onerror,
                   dc_onclose>>
    /\ DcFrame

\* stdin of a child emits drain: every listener registered with
\* once('drain') on it runs.
DcDrain(p) ==
    /\ dc_proc[p].state \in {"starting", "running"}
    /\ dc_send.awaitDrain[p] > 0
    /\ dc_send' = [dc_send EXCEPT !.sent = @ + dc_send.awaitDrain[p],
                                  !.awaitDrain[p] = 0]
    /\ UNCHANGED <<dc_processEnv, dc_serverEnv, dc_stderr, dc_PassThrough,
                   dc_stderrStream, dc_input, dc_fed, dc_process, dc_aborted,
                   dc_readBuffer, dc_start, dc_proc, dc_delivered, dc_onerror,
                   dc_onclose, dc_calls>>
    /\ DcFrame

\* The life of the child processes alone: no output, no pipe errors.
ProcessLifecycleNext ==
    \/ DcStart
    \/ \E p \in DcStarts : DcLoadFails(p)
    \/ \E p \in DcStarts : DcSpawn(p)
    \/ \E p \in DcStarts : DcOnSpawn(p)
    \/ \E p \in DcStarts : DcOnError(p)
    \/ \E p \in DcStarts : DcOnAbortError(p)
    \/ \E p \in DcStarts : DcOnClose(p)
    \/ DcClose

StdioClientNext ==
    \/ DcStart
    \/ \E p \in DcStarts : DcLoadFails(p)
    \/ \E p \in DcStarts : DcSpawn(p)
    \/ \E p \in DcStarts : DcOnSpawn(p)
    \/ \E p \in DcStarts : DcOnError(p)
    \/ \E p \in DcStarts : DcOnAbortError(p)
    \/ \E p \in DcStarts : DcOnClose(p)
    \/ \E p \in DcStarts, k \in 1..Len(dc_input) : DcOnData(p, k)
    \/ \E p \in DcStarts : DcOnPipeError(p)
    \/ DcClose

\* The transports that a specification does not exercise stay as constructed.
SseClientIdle == SseClientConstructed(FALSE)
SseServerIdle == SseServerConstructed(TRUE, FALSE, NoOptions)
StdioServerIdle == StdioServerConstructed(<<>>, 0)
StdioClientIdle == StdioClientConstructed(NoEnv, NoEnv, "inherit", <<>>)


InitSseClient == SseClientInit /\ SseServerIdle /\ StdioServerIdle /\ StdioClientIdle

SpecSseClient == InitSseClient /\ [][SseClientNext]_vars

InitSseServer == SseServerInit /\ SseClientIdle /\ StdioServerIdle /\ StdioClientIdle

SpecSseServer == InitSseServer /\ [][SseServerNext]_vars

\* The push server with its POST handler: the options are drawn when the
\* transport is constructed.
SsePostInit ==
    \E options \in SsOptions : SseServerConstructed(TRUE, FALSE, options)

InitSsePost == SsePostInit /\ SseClientIdle /\ StdioServerIdle /\ StdioClientIdle

SpecSsePost == InitSsePost /\ [][SsePostNext]_vars

InitStdioServer == StdioServerInit /\ SseClientIdle /\ SseServerIdle /\ StdioClientIdle

SpecStdioServer == InitStdioServer /\ [][StdioServerNext]_vars

\* The child's output is drawn when the transport is constructed; the
\* parent's environment holds a PATH and the caller overrides nothing.
StdioClientInit ==
    \E input \in Wires :
        StdioClientConstructed([key \in {"PATH"} |-> PlainValue], NoEnv, "inherit", input)

InitStdioClient == StdioClientInit /\ SseClientIdle /\ SseServerIdle /\ StdioServerIdle

SpecStdioClient == InitStdioClient /\ [][StdioClientNext]_vars

\* The parent's environment and the caller's overrides are drawn when the
\* transport is constructed; the child writes nothing.
InitSpawnEnv ==
    /\ \E processEnv \in ProcessEnvs, serverEnv \in ServerEnvs,
          stderr \in StderrOptions :
          StdioClientConstructed(processEnv, serverEnv, stderr, <<>>)
    /\ SseClientIdle /\ SseServerIdle /\ StdioServerIdle

SpecSpawnEnv == InitSpawnEnv /\ [][ProcessLifecycleNext]_vars

\* The two stdio transports sending: nothing is read by either, and every
\* child spawns.
StdioSendNext ==
    \/ \E m \in Messages, accepted \in BOOLEAN : DsSend(m, accepted)
    \/ DsDrain
    \/ DcStart
    \/ \E p \in DcStarts : DcSpawn(p)
    \/ \E p \in DcStarts : DcOnSpawn(p)
    \/ \E p \in DcStarts : DcOnClose(p)
    \/ DcClose
    \/ \E m \in Messages, accepted \in BOOLEAN : DcSend(m, accepted)
    \/ \E p \in DcStarts : DcDrain(p)

InitStdioSend == StdioServerIdle /\ StdioClientIdle /\ SseClientIdle /\ SseServerIdle

SpecStdioSend == InitStdioSend /\ [][StdioSendNext]_vars

(***************************************************************************)
(* ------------------------------ Claims --------------------------------- *)
(***************************************************************************)

\* C1: one send() call of the push client issues at most two POSTs and
\* invokes the auth collaborator at most once, whatever the server answers: a
\* 401 leads to one re-authentication and one resend, and a 401 on the
\* resend fails the send.
C1_SendRetriesOnce ==
    \A j \in SendCalls : sc_send[j].posts <= 2 /\ sc_send[j].auths <= 1

\* C2: one start() call of the push client invokes the auth collaborator at
\* most once and issues at most two GETs: after a 401 and a granted
\* authorization the connection is retried once, and a 401 on the retry
\* fails the start.
C2_StartRetriesOnce ==
    \A i \in StartCalls : sc_start[i].gets <= 2 /\ sc_start[i].auths <= 1

\* C3: no variable whose value begins with "()" is in the environment given
\* to a spawned process, whether it comes from the inherited defaults or
\* from the caller's overrides.
C3_NoFunctionInSpawnEnv ==
    \A p \in DcStarts :
        dc_proc[p].state # "none" =>
            \A key \in DOMAIN dc_proc[p].env :
                ~StartsWith(dc_proc[p].env[key], <<"(", ")">>)

\* C4: when the read loop of a start() call reads an endpoint event that
\* resolves to a foreign origin, the attempt ends: the loop stops reading
\* and drops the reader, a start() still pending is rejected, and from then
\* on the loop delivers no message to onmessage.
C4_ForeignEndpointEndsAttempt ==
    [][\A i \in StartCalls :
          /\ sc_start'[i].foreignSeen =>
                sc_start'[i].pc = "done" /\ sc_start'[i].result # "pending"
          /\ (~sc_start[i].foreignSeen /\ sc_start'[i].foreignSeen) =>
                /\ sc_reader' = 0
                /\ sc_start[i].result = "pending" => sc_start'[i].result = "rejected"
          /\ sc_start[i].foreignSeen =>
                sc_start'[i].delivered = sc_start[i].delivered]_vars

\* C4 witness: a pending start() was rejected by a foreign endpoint event.
C4_Witness ==
    \E i \in StartCalls :
        /\ sc_start[i].foreignSeen
        /\ sc_start[i].result = "rejected"
        /\ sc_start[i].failure = "endpoint"
        /\ sc_endpoint.origin = OtherOrigin

\* The lines of a byte sequence that are ended by a newline, read byte by byte.
RECURSIVE SplitLines(_, _, _)
SplitLines(bytes, line, lines) ==
    IF bytes = <<>> THEN lines
    ELSE IF Head(bytes) = NL
         THEN SplitLines(Tail(bytes), <<>>, Append(lines, line))
         ELSE SplitLines(Tail(bytes), Append(line, Head(bytes)), lines)

CompleteLines(bytes) == SplitLines(bytes, <<>>, <<>>)

\* The message whose encoding a valid line is.
MessageOf(line) == CHOOSE m \in Messages : SubSeq(SerializeMessage(m), 1, 3) = line

IsValidLine(line) == line \in ValidLines
IsMalformedLine(line) == line \notin ValidLines

MessagesOf(lines) ==
    LET valid == SelectSeq(lines, IsValidLine)
    IN [n \in 1..Len(valid) |-> MessageOf(valid[n])]

HoldsNL(buffer) == \E n \in 1..Len(buffer) : buffer[n] = NL

\* C5: when the input is newline-delimited valid messages, then however it
\* is cut into chunks the duplex server has, after every chunk, delivered
\* exactly the messages of the lines received so far, in their order, with
\* no onerror, and has left no complete line in its buffer.
C5_ReassemblyIgnoresChunking ==
    LET lines == CompleteLines(SubSeq(ds_input, 1, ds_fed)) IN
    ((\A n \in 1..Len(CompleteLines(ds_input)) : IsValidLine(CompleteLines(ds_input)[n]))
        /\ ds_calls.err = 0)
    => /\ ds_delivered = MessagesOf(lines)
       /\ Len(ds_delivered) = Len(lines)
       /\ ds_onerror = 0
       /\ ~HoldsNL(ds_readBuffer)

\* C5 witness: two different messages arrived in a single chunk and both
\* were delivered.
C5_Witness ==
    /\ ds_calls.data = 1
    /\ ds_fed = Len(ds_input)
    /\ Len(ds_delivered) = 2
    /\ ds_delivered[1] # ds_delivered[2]
    /\ ds_onerror = 0

\* C6: a line that fails to decode is reported once through onerror and
\* consumed, and reading goes on: while the duplex client has not been
\* closed and no spawn or pipe error was reported, it has delivered the
\* messages of all valid lines received so far, has invoked onerror once
\* per malformed line, and has left no complete line in its buffer. A malformed line followed by a valid one gives one
\* onerror and one onmessage.
C6_BadLineDoesNotStopReading ==
    LET lines == CompleteLines(SubSeq(dc_input, 1, dc_fed)) IN
    (dc_calls.close = 0 /\ dc_calls.err = 0 /\ dc_calls.failed = 0)
    => /\ dc_delivered = MessagesOf(lines)
       /\ dc_onerror = Len(SelectSeq(lines, IsMalformedLine))
       /\ ~HoldsNL(dc_readBuffer)

\* C6 witness: a malformed line and then a valid line were received, in one
\* chunk, and gave one onerror and one onmessage.
C6_Witness ==
    /\ dc_calls.close = 0
    /\ dc_calls.data = 1
    /\ dc_input = <<"{", "1", NL>> \o SerializeMessage(2)
    /\ dc_fed = Len(dc_input)
    /\ dc_onerror = 1
    /\ dc_delivered = <<2>>

\* C7: onclose of a push client is invoked at most once per instance,
\* whatever close() calls, stream ends, aborts, stream errors and further
\* start() calls happen.
C7_ClientCloseAtMostOnce == sc_onclose <= 1

\* C8: onclose of a push server is invoked at most once per instance,
\* whatever close() calls and close events of the response happen.
C8_ServerCloseAtMostOnce == ss_onclose <= 1

\* C9: close() called twice on a duplex server invokes onclose at most once.
C9_StdioServerCloseIdempotent == ds_onclose <= 1

\* C10: onclose of a duplex client is invoked at most once per instance,
\* across close() calls, the abort error of the termination and the child's
\* close event.
C10_StdioClientCloseAtMostOnce == dc_onclose <= 1

\* C11: when the read loop of a start() call stops before it has accepted an
\* endpoint event (the stream ended, was aborted or failed), that start() is
\* rejected and the step invokes no onclose; and a pending start() resolves
\* only in a step that reads an endpoint event and leaves an endpoint of the
\* connection's origin.
C11_EndBeforeEndpointFailsStart ==
    [][\A i \in StartCalls :
          /\ (sc_start[i].pc = "read" /\ ~sc_start[i].resolved
                 /\ sc_start'[i].pc = "done")
              => (sc_start'[i].result = "rejected" /\ sc_onclose' = sc_onclose)
          /\ (sc_start[i].result = "pending" /\ sc_start'[i].result = "resolved")
              => /\ sc_events' = sc_events + 1
                 /\ sc_endpoint' # Undefined
                 /\ sc_endpoint'.origin = sc_url.origin]_vars

\* C11 witness: the server ended the stream of a start() before any endpoint
\* event; the start() was rejected and no onclose was invoked.
C11_Witness ==
    \E i \in StartCalls :
        /\ sc_start[i].failure = "ended"
        /\ sc_start[i].result = "rejected"
        /\ sc_nClose = 0
        /\ sc_onclose = 0

\* C12: closed is terminal for the push client: once onclose has been
\* reported (close() completed, or the stream ended) and no start() has been
\* made since, a send() call fails and issues no POST.
C12_ClosedIsTerminal ==
    [][\A j \in SendCalls :
          (sc_didEmitClose /\ sc_closing = 0
              /\ sc_send[j].pc = "idle" /\ sc_send'[j].pc # "idle")
          => (sc_send'[j].result \notin {"pending", "resolved"}
              /\ sc_posts' = sc_posts)]_vars

\* C13: start() of a push server succeeds at most once per instance: once a
\* start() has opened the stream, every later start() call fails and writes
\* nothing to the response, also after close() or after the connection
\* dropped.
C13_StartAtMostOnce ==
    [][(HeadSent /\ ss_nStart' = ss_nStart + 1)
          => (ss_lastCall' \in {"alreadyStarted", "headersSent"}
              /\ ss_written' = ss_written)]_vars

IsEndpointEvent(e) == e = "endpoint"

\* C14: over the lifetime of one push server instance at most one endpoint
\* event is written to the response.
C14_OneEndpointEvent == Len(SelectSeq(ss_written, IsEndpointEvent)) <= 1

\* A request violates the allow-lists: protection is enabled and the Host
\* header is missing from or not in a non-empty allowedHosts, or the Origin
\* header is missing from or not in a non-empty allowedOrigins.
AllowListViolated(options, host, origin) ==
    /\ options.enableDnsRebindingProtection
    /\ \/ (options.allowedHosts # {}
            /\ (host = "" \/ host \notin options.allowedHosts))
       \/ (options.allowedOrigins # {}
            /\ (origin = "" \/ origin \notin options.allowedOrigins))

\* C15: a POST that arrives while the stream is open and violates the Host
\* or Origin allow-list is answered 403 and raises onerror once, and changes
\* nothing else: the response of the stream is kept and not written to or
\* ended, onclose is not invoked and onmessage is not invoked.
C15_ForbiddenLeavesStreamOpen ==
    [][(ss_nPost' = ss_nPost + 1 /\ ss_sseResponse
          /\ AllowListViolated(ss_options, ss_post'.host, ss_post'.origin))
       => /\ ss_post'.pc = "done"
          /\ ss_post'.status = 403
          /\ ss_onerror' = ss_onerror + 1
          /\ ss_sseResponse'
          /\ ss_written' = ss_written
          /\ ss_resEnded' = ss_resEnded
          /\ ss_onclose' = ss_onclose
          /\ ss_onmessage' = ss_onmessage]_vars

\* C15 witness: a POST was answered 403, and a send() made after it wrote
\* its message; no onclose and no onmessage happened.
C15_Witness ==
    /\ ss_post.status = 403
    /\ ss_lastCall = "sent"
    /\ ss_onerror = 1
    /\ ss_onclose = 0
    /\ ss_onmessage = 0

\* C16: a POST handled while the stream is open is answered 403 exactly
\* when it violates the allow-lists; with allowedOrigins ["https://a"] and
\* protection enabled a POST with Origin https://b is answered 403 and a
\* well-formed POST with Origin https://a is answered 202; with protection
\* disabled or both lists empty no POST is answered 403.
C16_RejectsExactlyOnViolation ==
    ss_post.pc = "done" =>
        /\ (ss_post.status = 403) <=>
              (ss_post.open
                 /\ AllowListViolated(ss_options, ss_post.host, ss_post.origin))
        /\ (ss_post.open /\ ss_options.enableDnsRebindingProtection
               /\ ss_options.allowedHosts = {}
               /\ ss_options.allowedOrigins = {"https://a"})
           => /\ ss_post.origin = "https://b" => ss_post.status = 403
              /\ (ss_post.origin = "https://a"
                    /\ ss_post.ctype = "application/json"
                    /\ ss_post.parsed = "validObject") => ss_post.status = 202
        /\ (~ss_options.enableDnsRebindingProtection
               \/ (ss_options.allowedHosts = {} /\ ss_options.allowedOrigins = {}))
           => ss_post.status # 403

\* C16 witness: with allowedOrigins ["https://a"] and protection enabled a
\* POST with Origin https://a was answered 202.
C16_Witness ==
    /\ ss_options.enableDnsRebindingProtection
    /\ ss_options.allowedOrigins = {"https://a"}
    /\ ss_post.origin = "https://a"
    /\ ss_post.status = 202

\* C17: a POST that passed the stream and header checks and whose content
\* type is text/plain or absent is answered 400 and does not reach
\* onmessage, whether or not a pre-parsed body came with it.
C17_WrongContentTypeIs400 ==
    (ss_post.pc # "idle" /\ ss_post.open
        /\ ~AllowListViolated(ss_options, ss_post.host, ss_post.origin)
        /\ ss_post.ctype \in {"", "text/plain"})
    => /\ ss_post.pc = "done"
       /\ ss_post.status = 400
       /\ Count(ss_post.log, "onmessage") = 0

\* C17 witness: a text/plain POST that came with a pre-parsed message was
\* answered 400.
C17_Witness ==
    /\ ss_post.ctype = "text/plain"
    /\ ss_post.parsed = "validObject"
    /\ ss_post.status = 400
    /\ ss_onmessage = 0

\* C18: when handlePostMessage ends for a request whose body it got within
\* the size limit: a body that is a valid message gives one onmessage and
\* then 202; any other body gives 400 and no onmessage; either way onclose
\* is not invoked and the stream's response is kept as it was.
C18_DecodeThenRespond ==
    [][(ss_post' # ss_post /\ ss_post'.pc = "done" /\ ss_post'.body # "none"
          /\ ss_post'.len <= MAXIMUM_MESSAGE_SIZE)
       => /\ IF ss_post'.body \in {"valid", "validObject"}
             THEN /\ ss_post'.log = <<"onmessage", "202">>
                  /\ ss_onmessage' = ss_onmessage + 1
             ELSE /\ ss_post'.status = 400
                  /\ Count(ss_post'.log, "onmessage") = 0
                  /\ ss_onmessage' = ss_onmessage
          /\ ss_onclose' = ss_onclose
          /\ ss_sseResponse' = ss_sseResponse
          /\ ss_written' = ss_written]_vars

\* C18 witness: a body read from the request decoded to a message, was
\* given to onmessage and then answered 202.
C18_Witness ==
    /\ ss_post.parsed = "undefined"
    /\ ss_post.body = "valid"
    /\ ss_post.log = <<"onmessage", "202">>
    /\ ss_onmessage = 1

\* C19: every POST body that fails to decode, malformed JSON as well as
\* JSON that is no message, is reported through onerror.
C19_DecodeFailuresReported ==
    (ss_post.pc = "done" /\ ss_post.body \in {"badjson", "badschema", "badObject"}
        /\ ss_post.len <= MAXIMUM_MESSAGE_SIZE)
    => Count(ss_post.log, "onerror") >= 1

\* C20: a send() on a push server that was started at most once writes a
\* message event exactly when the stream is open, that is, start() has
\* opened it, close() has not ended it and the connection has not dropped;
\* otherwise it fails as not connected and writes nothing.
C20_SendWritesIffOpen ==
    [][(ss_nSend' = ss_nSend + 1 /\ ss_nStart <= 1)
       => IF HeadSent /\ ~ss_resEnded /\ ~ss_resClosed
          THEN ss_written' = Append(ss_written, "message")
          ELSE ss_written' = ss_written /\ ss_lastCall' = "notConnected"]_vars

\* C21: while no endpoint event has arrived since the connection attempt in
\* progress began (a retried attempt forgets the endpoint of the one before),
\* no POST is issued, and a send() that is called then fails as not
\* connected.
C21_NoSendBeforeEndpoint ==
    [][~sc_endpointSeen
       => /\ sc_posts' = sc_posts
          /\ (sc_nSend' = sc_nSend + 1)
                => sc_send'[sc_nSend'].result = "notConnected"]_vars

\* C21 witness: a first start() had learned its endpoint; during the next
\* attempt, before its endpoint event, a send() failed as not connected.
C21_Witness ==
    /\ sc_start[1].result = "resolved"
    /\ sc_start[2].pc \in {"fetch", "auth", "read"}
    /\ ~sc_endpointSeen
    /\ sc_send[1].result = "notConnected"
    /\ sc_posts = 0

\* C22: every start() of the push client that failed for another reason
\* than a cancellation by the caller (failed request, 401 without or with
\* unsuccessful authentication, other non-2xx status, missing body, invalid
\* or foreign endpoint event, stream ended before the endpoint event) had
\* onerror invoked before it was rejected.
C22_StartFailuresReported ==
    \A i \in StartCalls :
        (sc_start[i].result = "rejected" /\ sc_start[i].failure # "aborted")
            => sc_start[i].erred

\* C23: a start() of the push client that ends after close() aborted its
\* pending request or stream read ends without onerror being invoked.
C23_CancelIsNotAnError ==
    [][\A i \in StartCalls :
          (sc_start[i].pc \in {"fetch", "read"} /\ sc_start[i].ctl \in sc_aborted
              /\ sc_start'[i].pc = "done")
          => sc_onerror' = sc_onerror]_vars

\* C24: the events of the child of a duplex client are mapped as follows:
\* spawn resolves the pending start() and invokes no callback; an error
\* that is no AbortError rejects the pending start() and invokes onerror;
\* the AbortError that follows close() invokes onclose, never onerror, and
\* leaves start() as it is; the exit of the child invokes onclose.
C24_LifecycleMapping ==
    [][\A p \in DcStarts :
          /\ (dc_proc[p].state = "starting" /\ dc_proc'[p].state = "running")
              => /\ dc_start[p].result = "pending" => dc_start'[p].result = "resolved"
                 /\ dc_onerror' = dc_onerror /\ dc_onclose' = dc_onclose
          /\ (dc_proc[p].state = "starting" /\ dc_proc'[p].state = "failed")
              => /\ dc_start[p].result = "pending" => dc_start'[p].result = "rejected"
                 /\ dc_onerror' = dc_onerror + 1 /\ dc_onclose' = dc_onclose
          /\ (~dc_proc[p].abortError /\ dc_proc'[p].abortError)
              => /\ dc_aborted
                 /\ dc_onclose' = dc_onclose + 1 /\ dc_onerror' = dc_onerror
                 /\ dc_start' = dc_start
          /\ (dc_proc[p].state # "gone" /\ dc_proc'[p].state = "gone")
              => dc_onclose' = dc_onclose + 1 /\ dc_onerror' = dc_onerror]_vars

\* C24 witness: a start() was resolved by the spawn of its child, close()
\* was called, and the AbortError of the child was reported through onclose
\* alone.
C24_Witness ==
    /\ dc_start[1].result = "resolved"
    /\ dc_calls.close = 1
    /\ dc_proc[1].abortError
    /\ dc_onclose = 1
    /\ dc_onerror = 0

\* C25: when stderr is captured, the stderr accessor returns the
\* pass-through stream in every state before start() is called, and every
\* child's stderr is piped into the stream the accessor returns.
C25_StderrStreamFromConstruction ==
    StderrCaptured =>
        /\ dc_calls.start = 0 => Stderr = "passThrough"
        /\ \A p \in DcStarts :
              dc_proc[p].state # "none"
                  => (dc_proc[p].pipedTo # 0 /\ dc_proc[p].pipedTo = dc_stderrStream)

\* C26: close() of a duplex server detaches its own listeners and nobody
\* else's, and calls pause() on the input stream exactly when no data
\* listener is left: with another consumer attached the stream is not
\* paused.
C26_CloseSparesOtherConsumers ==
    [][(ds_calls'.close = ds_calls.close + 1)
       => /\ ~ds_listening'
          /\ ds_others' = ds_others
          /\ ds_others = 0 => ds_paused'
          /\ ds_others > 0 => ds_paused' = ds_paused]_vars

\* C26 witness: a started duplex server that shares its input with another
\* consumer was closed, and the stream is not paused.
C26_Witness ==
    /\ ds_started
    /\ ds_others = 1
    /\ ds_calls.close >= 1
    /\ ~ds_listening
    /\ ~ds_paused

\* The messages as they are encoded for the wire.
EncodedMessages == {SerializeMessage(m) : m \in Messages}

\* C27: a send() of a duplex transport (of a client: one that has a child)
\* writes the encoded message to the writer during the call, after all
\* that was written before; it completes in the same step when the writer
\* accepted the write; when the writer reported a full buffer it stays
\* incomplete until the next drain event of that writer, which completes
\* every send waiting for it.
C27_SendBackpressure ==
    [][/\ (ds_calls'.send = ds_calls.send + 1)
           => /\ Len(ds_out') = Len(ds_out) + 1
              /\ SubSeq(ds_out', 1, Len(ds_out)) = ds_out
              /\ ds_out'[Len(ds_out')].json \in EncodedMessages
              /\ IF ds_out'[Len(ds_out')].accepted
                 THEN ds_sent' = ds_sent + 1 /\ ds_awaitDrain' = ds_awaitDrain
                 ELSE ds_sent' = ds_sent /\ ds_awaitDrain' = ds_awaitDrain + 1
       /\ (ds_calls'.send = ds_calls.send)
           => /\ ds_out' = ds_out
              /\ ds_sent' # ds_sent
                   => (ds_sent' = ds_sent + ds_awaitDrain /\ ds_awaitDrain' = 0)
              /\ ds_sent' = ds_sent => ds_awaitDrain' = ds_awaitDrain
       /\ (dc_calls'.send = dc_calls.send + 1 /\ dc_process # 0)
           => /\ Len(dc_send'.out) = Len(dc_send.out) + 1
              /\ SubSeq(dc_send'.out, 1, Len(dc_send.out)) = dc_send.out
              /\ LET w == dc_send'.out[Len(dc_send'.out)] IN
                 /\ w.json \in EncodedMessages
                 /\ w.child = dc_process
                 /\ IF w.accepted
                    THEN /\ dc_send'.sent = dc_send.sent + 1
                         /\ dc_send'.awaitDrain = dc_send.awaitDrain
                    ELSE /\ dc_send'.sent = dc_send.sent
                         /\ dc_send'.awaitDrain =
                               [dc_send.awaitDrain EXCEPT ![w.child] = @ + 1]
       /\ (dc_calls'.send = dc_calls.send)
           => /\ dc_send'.out = dc_send.out
              /\ dc_send'.sent # dc_send.sent
                   => \E p \in DcStarts :
                         /\ dc_send'.sent = dc_send.sent + dc_send.awaitDrain[p]
                         /\ dc_send'.awaitDrain = [dc_send.awaitDrain EXCEPT ![p] = 0]
              /\ dc_send'.sent = dc_send.sent
                   => dc_send'.awaitDrain = dc_send.awaitDrain]_vars

\* C27 witness: on both transports a send was accepted and completed at
\* once, a later one met a full buffer, and a drain event completed it.
C27_Witness ==
    /\ Len(ds_out) = 2 /\ ds_out[1].accepted /\ ~ds_out[2].accepted
    /\ ds_sent = 2 /\ ds_awaitDrain = 0
    /\ Len(dc_send.out) = 2 /\ dc_send.out[1].accepted /\ ~dc_send.out[2].accepted
    /\ dc_send.sent = 2 /\ dc_send.awaitDrain = [p \in DcStarts |-> 0]

\* The status the fixed order of checks gives a request: 500 without an
\* open stream, else 403 for its headers, else 400 for its content type,
\* else 400 for a body that could not be read or is too large, else 400 for
\* a body that does not decode, else 202.
ExpectedStatus(post) ==
    IF ~post.open THEN 500
    ELSE IF AllowListViolated(ss_options, post.host, post.origin) THEN 403
    ELSE IF post.ctype \notin {"application/json", "Application/JSON; charset=utf-8"}
    THEN 400
    ELSE IF post.body = "none" \/ post.len > MAXIMUM_MESSAGE_SIZE THEN 400
    ELSE IF post.body \notin {"valid", "validObject"} THEN 400
    ELSE 202

\* C28: a handlePostMessage call that has ended wrote exactly one response
\* status, the one of the first failing check in the fixed order, and it
\* failed (threw) exactly when that status is 500: a request with a
\* disallowed Origin and a wrong content type got 403, a request without an
\* open stream 500 whatever its headers.
C28_OneStatusInFixedOrder ==
    ss_post.pc = "done" =>
        /\ Cardinality({n \in DOMAIN ss_post.log :
                           ss_post.log[n] \in {"202", "400", "403", "500"}}) = 1
        /\ ss_post.status = ExpectedStatus(ss_post)
        /\ ss_post.threw <=> ss_post.status = 500

\* C28 witness: a request with a disallowed Origin and content type
\* text/plain was answered 403.
C28_Witness ==
    /\ ss_post.pc = "done"
    /\ ss_post.open
    /\ ss_options.enableDnsRebindingProtection
    /\ ss_options.allowedOrigins = {"https://a"}
    /\ ss_post.origin = "https://b"
    /\ ss_post.ctype = "text/plain"
    /\ ss_post.status = 403

\* C29: every POST that send() issued went to a URL on the connection's
\* origin, also after an endpoint event with a foreign origin was received
\* and rejected.
C29_PostsStayOnConnectionOrigin ==
    \A j \in SendCalls :
        sc_send[j].posts > 0 => sc_send[j].target.origin = sc_url.origin

\* C30: a duplex client calls the spawn function at most once: of all its
\* start() calls, overlapping ones and ones made after close() included, at
\* most one gets as far as spawning a child.
C30_OneChildPerInstance ==
    Cardinality({p \in DcStarts : dc_proc[p].state # "none"}) <= 1

\* close() has returned while the only child the transport ever spawned is
\* still running: _process is forgotten, the child has not exited yet.
ClosedWhileChildRuns ==
    /\ dc_calls.start = 1
    /\ dc_calls.close >= 1
    /\ dc_proc[1].state = "running"
    /\ dc_process = 0

\* C31: after close() of a duplex client has returned, whatever the child
\* still writes before it exits, no message is given to onmessage and the
\* read buffer stays empty.
C31_NothingDeliveredAfterClose ==
    [][ClosedWhileChildRuns
       => (dc_delivered' = dc_delivered /\ dc_readBuffer' = <<>>)]_vars

\* C32: on the stream of the only start() call, once an endpoint event has
\* set the POST target, no later event read from that stream changes it.
C32_FirstEndpointEventWins ==
    [][(sc_nStart = 1 /\ sc_start[1].pc = "read" /\ sc_start[1].resolved
          /\ sc_events' = sc_events + 1)
       => sc_endpoint' = sc_endpoint]_vars

\* C33: when the stream of a start() that had completed has terminated, by
\* a clean end or by a read error, and the caller has not called close(),
\* onclose has been reported.
C33_TerminationReportsClose ==
    \A i \in StartCalls :
        (sc_start[i].pc = "done" /\ sc_start[i].result = "resolved" /\ sc_nClose = 0)
            => sc_onclose >= 1

====
